---- MODULE Spec2Model ----
(***************************************************************************)
(* Tower storage (SavedTower envelopes, File and Etcd backends), the       *)
(* duplicate-shred evidence aggregator and the latest-unprocessed-votes    *)
(* buffer, modelled as state machines.  Each subsystem has its own         *)
(* specification (SpecTower, SpecEtcd, SpecFile, SpecVotes, SpecAggr) over  *)
(* its own variables; the other subsystems' variables stay as initialised. *)
(***************************************************************************)
EXTENDS Integers, Sequences, FiniteSets, TLC

VARIABLES
    \* --- SavedTower::new / try_into_tower applied to drawn inputs
    tw_tower,      \* the Tower handed to SavedTower::new
    tw_key,        \* the signing keypair's pubkey
    tw_version,    \* which envelope type is used: "Current" or "V1_7_14"
    tw_new,        \* <<>> or <<result of SavedTower::new>>
    tw_wire,       \* <<>> or <<bytes written by serialize_into>>
    tw_tampered,   \* TRUE once a byte of the written data was changed
    tw_loaded,     \* <<>> or <<result of deserializing tw_wire>>
    tw_call,       \* <<>> or <<[on, arg, res]>>: the last try_into_tower call
    \* --- etcd backend: the key-value store and the EtcdTowerStorage instances
    etcd_instance, \* P -> <<>> or <<instance_id>>: value of "<P>/instance"
    etcd_tower,    \* P -> <<>> or <<bytes>>: value of "<P>/tower"
    et_pc,         \* instance -> "idle" or "acquired" (between load's two txns)
    et_key,        \* instance -> pubkey of the load in progress
    et_last,       \* <<>> or <<record of the last finished load or store>>
    et_acquirer,   \* P -> <<>> or <<instance>>: who ran the latest acquire put
    et_done,       \* instance -> P -> TRUE when its latest load(P) has completed
    et_began,      \* instance -> the instances whose load had completed when
                   \*   this instance's running load began
    et_later,      \* instance -> P -> the instances that began and completed a
                   \*   load(P) after this instance's latest load(P) completed
    \* --- file backend
    fs_files,      \* filename -> <<>> (absent) or <<bytes>>
    fs_migration,  \* FileTowerStorage.migration
    fs_pc,         \* "idle", or "writing" while a store is between create and rename
    fs_saved,      \* the envelope of the store in progress
    fs_written,    \* number of wire cells of it written so far
    fs_prior,      \* content of the target file when the store in progress began
    fs_done,       \* pubkey -> <<>> or <<bytes of the last store that returned Ok>>
    fs_load,       \* <<>> or <<record of the last load>>
    fs_crashes,    \* number of crashes so far
    \* --- LatestUnprocessedVotes
    latest_votes_per_pubkey, \* pubkey -> <<>> or <<[slot, packet]>>
    size,          \* the AtomicUsize counter: its value modulo 2^64, kept as the
                   \*   representative in (-2^63, 2^63), so 0 - 1 is -1
    lv_next,       \* next fresh packet id
    lv_drains,     \* drains run so far
    lv_last,       \* <<>> or <<record of the last finished call>>
    lv_max,        \* pubkey -> <<>> or <<the highest slot passed to update_vote>>
    \* --- duplicate-shred listener and aggregator
    ag_gossip,     \* sequence of gossip entries [from, dup, chunk]
    ag_cursor,     \* recv_loop's cursor: entries consumed so far
    ag_chan,       \* the DuplicateShred channel: sequence of pubkeys
    ag_batch,      \* pubkeys of the running batch still to process
    ag_lpc,        \* recv_loop's position: "run", "body" or "exit"
    ag_pc,         \* aggregator position: "head", "recv", "batch" or "exit"
    ag_dups,       \* blockstore duplicate-slot index: set of slots
    ag_sent,       \* everything sent on the duplicate-slot channel, in order
    ag_stores,     \* slots store_duplicate_slot was called for, in order
    ag_known,      \* ag_dups as it was when the running batch began
    ag_passSent,   \* slots sent during the running batch
    ag_passStored, \* slots store_duplicate_slot was called for in the running batch
    ag_passOffered,\* slots a pubkey of the running batch held a complete proof for
    ag_exit,       \* the shared exit flag
    ag_calls,      \* the ingest_duplicate_proof_chunk calls of the last pubkey
                   \*   processed, in order: what each was given and did
    ag_partial,    \* <<pubkey, slot>> pairs for which an earlier call had fewer
                   \*   chunks than num_chunks
    ag_afterExit,  \* batches begun since the exit flag was set
    ag_signalled,  \* every sender.send recv_loop executed, in order: the pubkey,
                   \*   whether the send succeeded, the cursor its poll began at
    ag_run,        \* <<>> or <<what the last processed pubkey's closure began
                   \*   with: the pubkey, the gossip length, the duplicate index>>
    \* --- Tower1_7_14::save and NullTowerStorage
    sv_storage,    \* the TowerStorage in use: "Null" or "File"
    sv_held,       \* pubkey -> <<>> or <<bytes>>: what the storage keeps
    sv_calls,      \* number of store calls the storage has received
    sv_last,       \* <<>> or <<record of the last finished save, store or load>>
    \* --- update_vote run by several threads at once
    cv_entry,      \* the shared map's entry for the pubkey of the calls:
                   \*   <<>> or <<[slot, packet]>>
    cv_size,       \* the shared AtomicUsize counter
    cv_pc,         \* thread -> "start", "found", "replace", "insert" or "done"
    cv_slot,       \* thread -> the slot of its vote (its packet is its own id)
    cv_latest,     \* thread -> its local latest_slot
    cv_ret,        \* thread -> <<>> or <<value update_vote returned>>
    \* --- FeatureSet
    active,        \* feature id -> <<>> or <<slot>>: the active map
    inactive,      \* set of feature ids
    ft_recent      \* feature id -> <<>> or <<the most recent activate or
                   \*   deactivate call made for the id>>

twVars == <<tw_tower, tw_key, tw_version, tw_new, tw_wire, tw_tampered, tw_loaded, tw_call>>
etVars == <<etcd_instance, etcd_tower, et_pc, et_key, et_last, et_acquirer, et_done,
            et_began, et_later>>
fsVars == <<fs_files, fs_migration, fs_pc, fs_saved, fs_written, fs_prior, fs_done, fs_load, fs_crashes>>
lvVars == <<latest_votes_per_pubkey, size, lv_next, lv_drains, lv_last, lv_max>>
agVars == <<ag_gossip, ag_cursor, ag_chan, ag_batch, ag_lpc, ag_pc, ag_dups, ag_sent,
            ag_stores, ag_known, ag_passSent, ag_passStored, ag_passOffered, ag_exit,
            ag_calls, ag_partial, ag_afterExit, ag_signalled, ag_run>>
svVars == <<sv_storage, sv_held, sv_calls, sv_last>>
cvVars == <<cv_entry, cv_size, cv_pc, cv_slot, cv_latest, cv_ret>>
ftVars == <<active, inactive, ft_recent>>
vars == <<twVars, etVars, fsVars, lvVars, agVars, svVars, cvVars, ftVars>>

----------------------------------------------------------------------------
(* Bounds and program constants *)

\* Pubkeys are 0..MaxPubkey; 0 is Pubkey::default().  The same range is the
\* alphabet of one encoded cell, so that a pubkey fits in one cell.
MaxPubkey == 2
DefaultPubkey == 0
Pubkeys == 0..MaxPubkey
\* Keypairs: no keypair has the all-zero public key.
Keys == 1..MaxPubkey
Bytes == 0..MaxPubkey
Versions == {"Current", "V1_7_14"}

None == <<>>
Some(x) == <<x>>
IsSome(o) == o # <<>>
Unwrap(o) == o[1]

Ok(v) == [ok |-> TRUE, err |-> "", val |-> <<v>>]
Err(e) == [ok |-> FALSE, err |-> e, val |-> <<>>]

----------------------------------------------------------------------------
(* Tower, its encoding, and the SavedTower envelope *)

\* Largest variant tag the codec accepts in the vote_state / last_vote cells.
MaxTag == 1

\* The towers drawn as inputs.
Towers ==
    [ node_pubkey : Pubkeys,
      threshold_depth : {1},
      threshold_size : {1},
      vote_state : 0..MaxTag,
      last_vote : {0},
      last_vote_tx_blockhash : 0..1,
      last_timestamp : 0..1,
      stray_restored_slot : {None, Some(1)},
      last_switch_threshold_check : {None} ]

\* bincode::serialize(tower): the fields in declaration order, one cell each;
\* the #[serde(skip)] fields are not written.
TowerSerialize_dropsTimestamp(t) ==
    << t.node_pubkey, t.threshold_depth, t.threshold_size, t.vote_state, t.last_vote, 0 >>

TowerSerialize(t) ==
    << t.node_pubkey, t.threshold_depth, t.threshold_size, t.vote_state,
       t.last_vote, t.last_timestamp >>

\* bincode::deserialize: fails on a short input or on an invalid variant tag;
\* the #[serde(skip)] fields take their Default values.
TowerDeserialize(d) ==
    IF Len(d) < 6 \/ d[4] > MaxTag \/ d[5] > MaxTag
    THEN Err("Codec")
    ELSE Ok([ node_pubkey |-> d[1],
              threshold_depth |-> d[2],
              threshold_size |-> d[3],
              vote_state |-> d[4],
              last_vote |-> d[5],
              last_vote_tx_blockhash |-> 0,
              last_timestamp |-> d[6],
              stray_restored_slot |-> None,
              last_switch_threshold_check |-> None ])

\* TowerVersions::convert_to_current: the current tower with the fields of the
\* decoded one.
convert_to_current(tv) ==
    IF tv.tag = "Current"
    THEN tv.tower
    ELSE [ node_pubkey |-> tv.tower.node_pubkey,
           threshold_depth |-> tv.tower.threshold_depth,
           threshold_size |-> tv.tower.threshold_size,
           vote_state |-> tv.tower.vote_state,
           last_vote |-> tv.tower.last_vote,
           last_vote_tx_blockhash |-> tv.tower.last_vote_tx_blockhash,
           last_timestamp |-> tv.tower.last_timestamp,
           stray_restored_slot |-> tv.tower.stray_restored_slot,
           last_switch_threshold_check |-> tv.tower.last_switch_threshold_check ]

\* A tower as it is after a trip through its encoding: the #[serde(skip)]
\* fields hold their Default values.
WithSkippedDefault(t) ==
    [t EXCEPT !.last_vote_tx_blockhash = 0,
              !.stray_restored_slot = None,
              !.last_switch_threshold_check = None]

\* keypair.sign_message(data) and signature.verify(pubkey, data): a signature
\* names the key that made it and the message it covers, and verifies for
\* exactly that pair.
sign_message(key, data) == [signer |-> key, msg |-> data]
verify(signature, pubkey, data) == signature.signer = pubkey /\ signature.msg = data

\* SavedTower::new without its node_pubkey comparison.
SavedTower_new_noCheck(tower, keypair, version) ==
    LET data == TowerSerialize(tower) IN
    Ok([ version |-> version,
         signature |-> sign_message(keypair, data),
         data |-> data,
         node_pubkey |-> keypair ])

\* SavedTower::new and SavedTower1_7_14::new (the same body).
SavedTower_new(tower, keypair, version) ==
    IF tower.node_pubkey # keypair
    THEN Err("WrongTower")
    ELSE LET data == TowerSerialize(tower) IN
         Ok([ version |-> version,
              signature |-> sign_message(keypair, data),
              data |-> data,
              node_pubkey |-> keypair ])

\* try_into_tower without the signature check.
try_into_tower_noVerify(self, node_pubkey) ==
    IF self.node_pubkey # DefaultPubkey
    THEN Err("panic")
    ELSE LET d == TowerDeserialize(self.data) IN
         IF ~d.ok
         THEN Err("Codec")
         ELSE LET tower == convert_to_current(
                               [tag |-> IF self.version = "Current" THEN "Current" ELSE "V1_17_14",
                                tower |-> Unwrap(d.val)]) IN
              IF tower.node_pubkey # node_pubkey
              THEN Err("WrongTower")
              ELSE Ok(tower)

\* try_into_tower decoding the payload before it verifies the signature.
try_into_tower_decodeFirst(self, node_pubkey) ==
    IF self.node_pubkey # DefaultPubkey
    THEN Err("panic")
    ELSE LET d == TowerDeserialize(self.data) IN
         IF ~d.ok
         THEN Err("Codec")
         ELSE LET tower == convert_to_current(
                               [tag |-> IF self.version = "Current" THEN "Current" ELSE "V1_17_14",
                                tower |-> Unwrap(d.val)]) IN
              IF tower.node_pubkey # node_pubkey
              THEN Err("WrongTower")
              ELSE IF ~verify(self.signature, node_pubkey, self.data)
                   THEN Err("InvalidSignature")
                   ELSE Ok(tower)

\* SavedTower::try_into_tower and SavedTower1_7_14::try_into_tower (the same
\* body but for the TowerVersions tag).  A failed assert_eq! is "panic".
try_into_tower(self, node_pubkey) ==
    IF self.node_pubkey # DefaultPubkey
    THEN Err("panic")
    ELSE IF ~verify(self.signature, node_pubkey, self.data)
    THEN Err("InvalidSignature")
    ELSE LET d == TowerDeserialize(self.data) IN
         IF ~d.ok
         THEN Err("Codec")
         ELSE LET tower == convert_to_current(
                               [tag |-> IF self.version = "Current" THEN "Current" ELSE "V1_17_14",
                                tower |-> Unwrap(d.val)]) IN
              IF tower.node_pubkey # node_pubkey
              THEN Err("WrongTower")
              ELSE Ok(tower)

\* A pubkey() that answers with the key that made the signature.
pubkey_ofSigner(self) == self.signature.signer

\* SavedTowerVersion::pubkey
pubkey(self) == self.node_pubkey

\* A decoding that fills node_pubkey with the key that made the signature.
SavedTower_deserialize_keepsPubkey(w, version) ==
    IF Len(w) < 2
    THEN Err("Codec")
    ELSE IF Len(w) < 2 + w[2]
    THEN Err("Codec")
    ELSE Ok([ version |-> version,
              signature |-> w[1],
              data |-> SubSeq(w, 3, 2 + w[2]),
              node_pubkey |-> w[1].signer ])

\* bincode encoding of the envelope: the signature, the length prefix of data,
\* the data cells; node_pubkey is #[serde(skip)] and is not written.
SavedTower_serialize(self) == <<self.signature, Len(self.data)>> \o self.data

\* bincode decoding of an envelope of the given type: node_pubkey takes its
\* Default value.  A stream that ends early is a codec error.
SavedTower_deserialize(w, version) ==
    IF Len(w) < 2
    THEN Err("Codec")
    ELSE IF Len(w) < 2 + w[2]
    THEN Err("Codec")
    ELSE Ok([ version |-> version,
              signature |-> w[1],
              data |-> SubSeq(w, 3, 2 + w[2]),
              node_pubkey |-> DefaultPubkey ])

----------------------------------------------------------------------------
(* EtcdTowerStorage: the transactions of load and store *)

NumInstances == 3
Instances == 1..NumInstances

\* The validator identities loads are issued for, and the etcd keys in use:
\* get_keys(P) is "<P>/instance" and "<P>/tower", one pair per pubkey.
EtLoadKeys == {1}
EtKeys == {DefaultPubkey} \cup EtLoadKeys

\* EtcdTowerStorage.instance_id: timestamp().to_le_bytes() taken when the
\* instance is constructed; the instances are constructed at distinct times.
instance_id(i) == i

\* EtcdTowerStorage.migration, set at construction.
migration(i) == i = NumInstances

LostLock == "Lost etcd instance lock"
ResponseMissing == "Saved tower response missing"

\* Compare::value(instance_key, CompareOp::Equal, self.instance_id)
compare_instance(instances, key, id) == instances[key] = Some(id)

\* An acquire that leaves an existing "<P>/instance" value in place.
load_txn1_ifAbsent(instances, key, id) ==
    IF IsSome(instances[key]) THEN instances ELSE [instances EXCEPT ![key] = Some(id)]

\* load's first transaction: Txn::new().and_then([put(instance_key, instance_id)])
load_txn1(instances, key, id) == [instances EXCEPT ![key] = Some(id)]

\* A second transaction that answers a missing tower with an empty envelope.
load_txn2_emptyOnMissing(instances, towers, key, id, legacy) ==
    IF ~compare_instance(instances, key, id)
    THEN Err(LostLock)
    ELSE IF IsSome(towers[key])
    THEN SavedTower_deserialize(Unwrap(towers[key]),
                                IF legacy THEN "V1_7_14" ELSE "Current")
    ELSE Ok([ version |-> IF legacy THEN "V1_7_14" ELSE "Current",
              signature |-> sign_message(DefaultPubkey, <<>>),
              data |-> <<>>,
              node_pubkey |-> DefaultPubkey ])

\* A second transaction whose response is always decoded as the current
\* SavedTower.
load_txn2_currentOnly(instances, towers, key, id, legacy) ==
    IF ~compare_instance(instances, key, id)
    THEN Err(LostLock)
    ELSE IF IsSome(towers[key])
    THEN SavedTower_deserialize(Unwrap(towers[key]), "Current")
    ELSE Err(ResponseMissing)

\* A second transaction that gets the tower without the compare.
load_txn2_noCompare(instances, towers, key, id, legacy) ==
    IF IsSome(towers[key])
    THEN SavedTower_deserialize(Unwrap(towers[key]),
                                IF legacy THEN "V1_7_14" ELSE "Current")
    ELSE Err(ResponseMissing)

\* load's second transaction and the handling of its response:
\* when(instance == instance_id).and_then([get(tower_key)])
load_txn2(instances, towers, key, id, legacy) ==
    IF ~compare_instance(instances, key, id)
    THEN Err(LostLock)
    ELSE IF IsSome(towers[key])
    THEN SavedTower_deserialize(Unwrap(towers[key]),
                                IF legacy THEN "V1_7_14" ELSE "Current")
    ELSE Err(ResponseMissing)

\* A store whose put is not guarded by the compare.
store_txn_noCompare(instances, towers, saved, id) ==
    [ res |-> Ok("unit"),
      towers |-> [towers EXCEPT ![pubkey(saved)] = Some(SavedTower_serialize(saved))] ]

\* store's transaction and the handling of its response:
\* when(instance == instance_id).and_then([put(tower_key, serialize(saved_tower))])
store_txn(instances, towers, saved, id) ==
    IF compare_instance(instances, pubkey(saved), id)
    THEN [ res |-> Ok("unit"),
           towers |-> [towers EXCEPT ![pubkey(saved)] = Some(SavedTower_serialize(saved))] ]
    ELSE [ res |-> Err(LostLock), towers |-> towers ]

\* The envelopes an instance stores: SavedTower::new of the validator's tower
\* at two different times.
EtTower(k, ts) ==
    [ node_pubkey |-> k, threshold_depth |-> 1, threshold_size |-> 1, vote_state |-> 0,
      last_vote |-> 0, last_vote_tx_blockhash |-> 0, last_timestamp |-> ts,
      stray_restored_slot |-> None, last_switch_threshold_check |-> None ]

EtEnvelopes(i) ==
    { Unwrap(SavedTower_new(EtTower(k, ts), k,
                            IF migration(i) THEN "V1_7_14" ELSE "Current").val) :
        k \in EtLoadKeys, ts \in 0..1 }

----------------------------------------------------------------------------
(* FileTowerStorage: file names and the file system *)

\* Crashes of the validator process the model follows.
MaxCrashes == 2

\* The pubkeys files are kept for: the validator's and Pubkey::default().
FsKeys == {DefaultPubkey, 1}

\* FileTowerStorage::filename: <tower_path>/tower-<pubkey>.bin
filename(node_pubkey) == <<"bin", node_pubkey>>

\* A store that writes the target file in place.
new_filename_inPlace(node_pubkey) == filename(node_pubkey)

\* filename.with_extension("bin.new")
new_filename(node_pubkey) == <<"bin.new", node_pubkey>>

FsNames == {filename(k) : k \in FsKeys} \cup {<<"bin.new", k>> : k \in FsKeys}

\* fs::rename(from, to): `to` takes the content of `from`, which is gone
\* (renaming a file onto itself changes nothing).
rename(files, from, to) ==
    IF from = to
    THEN files
    ELSE [files EXCEPT ![to] = files[from], ![from] = None]

\* The envelopes the validator stores: SavedTower::new or SavedTower1_7_14::new
\* of its tower at two different times.
FsEnvelopes ==
    { Unwrap(SavedTower_new(EtTower(1, ts), 1, v).val) : ts \in 0..1, v \in Versions }

----------------------------------------------------------------------------
(* Tower1_7_14::save over a TowerStorage, and NullTowerStorage *)

\* Store calls a storage object receives in a run.
MaxSaves == 3

Storages == {"Null", "File"}

\* The towers handed to save, for any node_pubkey.
SvTowers ==
    { t \in Towers : /\ t.vote_state = 0 /\ t.last_vote_tx_blockhash = 0
                     /\ t.stray_restored_slot = None }

\* A null storage that keeps what it is given.
NullTowerStorage_store_keeps(held, saved_tower) ==
    [ res |-> Ok("unit"),
      held |-> [held EXCEPT ![pubkey(saved_tower)] = Some(SavedTower_serialize(saved_tower))] ]

\* NullTowerStorage::load
NullTowerStorage_load(held, node_pubkey) == Err("IoError")

\* NullTowerStorage::store
NullTowerStorage_store(held, saved_tower) == [ res |-> Ok("unit"), held |-> held ]

\* FileTowerStorage::store run to its end without an I/O error: tower-P.bin
\* holds the encoded envelope
FileTowerStorage_store(held, saved_tower) ==
    [ res |-> Ok("unit"),
      held |-> [held EXCEPT ![pubkey(saved_tower)] = Some(SavedTower_serialize(saved_tower))] ]

\* tower_storage.store(&saved_tower) through the trait object
TowerStorage_store(storage, held, saved_tower) ==
    IF storage = "Null"
    THEN NullTowerStorage_store(held, saved_tower)
    ELSE FileTowerStorage_store(held, saved_tower)

\* Tower1_7_14::save: the result, what the storage keeps afterwards and how
\* many store calls it has received
Tower1_7_14_save(tower, storage, held, calls, node_keypair) ==
    LET saved_tower == SavedTower_new(tower, node_keypair, "V1_7_14") IN
    IF ~saved_tower.ok
    THEN [ res |-> Err(saved_tower.err), held |-> held, calls |-> calls ]
    ELSE LET r == TowerStorage_store(storage, held, Unwrap(saved_tower.val)) IN
         [ res |-> r.res, held |-> r.held, calls |-> calls + 1 ]

----------------------------------------------------------------------------
(* LatestUnprocessedVotes *)

\* Vote packets handed to update_vote, drains run, and the largest vote slot.
MaxPackets == 4
MaxDrains == 2
MaxVoteSlot == 2

\* Validators whose votes arrive or who are staked in the bank.
LvPubkeys == 1..2

\* The orders in which a drain can visit the bank's staked nodes: every
\* sequence without repetition (the sampling keys are random).
StakedOrders ==
    { o \in UNION {[1..n -> LvPubkeys] : n \in 0..Cardinality(LvPubkeys)} :
        \A i, j \in DOMAIN o : i # j => o[i] # o[j] }

\* update_vote that leaves the counter alone when it refills a drained entry.
update_vote_noIncrement(votes, sz, pk, slot, vote) ==
    IF IsSome(votes[pk])
    THEN LET latest_vote == Unwrap(votes[pk]) IN
         IF slot > latest_vote.slot
         THEN [ votes |-> [votes EXCEPT ![pk] = Some([slot |-> slot, packet |-> Some(vote)])],
                size |-> sz,
                ret |-> latest_vote.packet ]
         ELSE [ votes |-> votes, size |-> sz, ret |-> Some(vote) ]
    ELSE [ votes |-> [votes EXCEPT ![pk] = Some([slot |-> slot, packet |-> Some(vote)])],
           size |-> sz + 1,
           ret |-> None ]

\* update_vote accepting a vote whose slot equals the stored one.
update_vote_acceptsEqual(votes, sz, pk, slot, vote) ==
    IF IsSome(votes[pk])
    THEN LET latest_vote == Unwrap(votes[pk]) IN
         IF slot >= latest_vote.slot
         THEN [ votes |-> [votes EXCEPT ![pk] = Some([slot |-> slot, packet |-> Some(vote)])],
                size |-> IF latest_vote.packet = None THEN sz + 1 ELSE sz,
                ret |-> latest_vote.packet ]
         ELSE [ votes |-> votes, size |-> sz, ret |-> Some(vote) ]
    ELSE [ votes |-> [votes EXCEPT ![pk] = Some([slot |-> slot, packet |-> Some(vote)])],
           size |-> sz + 1,
           ret |-> None ]

\* update_vote(pubkey, slot, vote), run by one thread: the map, the counter
\* and the returned Option<DeserializedPacket>
update_vote(votes, sz, pk, slot, vote) ==
    IF IsSome(votes[pk])
    THEN LET latest_vote == Unwrap(votes[pk]) IN
         IF slot > latest_vote.slot
         THEN [ votes |-> [votes EXCEPT ![pk] = Some([slot |-> slot, packet |-> Some(vote)])],
                size |-> IF latest_vote.packet = None THEN sz + 1 ELSE sz,
                ret |-> latest_vote.packet ]
         ELSE [ votes |-> votes, size |-> sz, ret |-> Some(vote) ]
    ELSE [ votes |-> [votes EXCEPT ![pk] = Some([slot |-> slot, packet |-> Some(vote)])],
           size |-> sz + 1,
           ret |-> None ]

\* A closure that also sets the drained entry's slot back to 0.
drain_visit_resetsSlot(acc, pk) ==
    IF IsSome(acc.votes[pk])
    THEN LET latest_vote == Unwrap(acc.votes[pk]) IN
         [ votes |-> [acc.votes EXCEPT ![pk] = Some([slot |-> 0, packet |-> None])],
           size |-> acc.size - 1,
           yielded |-> acc.yielded \o latest_vote.packet ]
    ELSE acc

\* The filter_map closure of drain_unprocessed_votes_by_stake for one pubkey:
\* the entry's packet is taken and the counter decremented whenever the
\* pubkey has an entry.
drain_visit(acc, pk) ==
    IF IsSome(acc.votes[pk])
    THEN LET latest_vote == Unwrap(acc.votes[pk]) IN
         [ votes |-> [acc.votes EXCEPT ![pk] = Some([latest_vote EXCEPT !.packet = None])],
           size |-> acc.size - 1,
           yielded |-> acc.yielded \o latest_vote.packet ]
    ELSE acc

\* drain_unprocessed_votes_by_stake, consumed to its end, visiting the staked
\* nodes in the given order
RECURSIVE drain_from(_, _, _)
drain_from(acc, order, i) ==
    IF i > Len(order) THEN acc ELSE drain_from(drain_visit(acc, order[i]), order, i + 1)

drain_unprocessed_votes_by_stake(votes, sz, order) ==
    drain_from([votes |-> votes, size |-> sz, yielded |-> <<>>], order, 1)

\* len()
len == size

\* get_latest_vote_slot(pubkey): the slot of the pubkey's entry, if it has one
get_latest_vote_slot(votes, pk) ==
    IF IsSome(votes[pk]) THEN Some(Unwrap(votes[pk]).slot) ELSE None

\* Number of entries whose packet is present
PresentPackets(votes) ==
    Cardinality({pk \in LvPubkeys : IsSome(votes[pk]) /\ IsSome(Unwrap(votes[pk]).packet)})

\* Threads that call update_vote for one pubkey at the same time; thread t
\* submits the packet t.
NumThreads == 2
Threads == 1..NumThreads

----------------------------------------------------------------------------
(* ClusterInfoEntriesListener: the gossip feed, chunk reassembly, ingestion *)

\* Gossip entries that arrive during a run.
MaxGossip == 2

AgPeers == 1..2
AgSlots == 1..2

\* DuplicateShred chunks: slot, num_chunks and chunk_index of a proof cut in
\* one or in two chunks.
AgChunks ==
    { [slot |-> s, num_chunks |-> n, chunk_index |-> i] :
        s \in AgSlots, n \in 1..2, i \in 0..1 } \ 
    { [slot |-> s, num_chunks |-> 1, chunk_index |-> 1] : s \in AgSlots }

\* CRDS values: a peer's DuplicateShred chunk, or a value of another kind.
AgEntries ==
    { [from |-> p, dup |-> TRUE, chunk |-> c] : p \in AgPeers, c \in AgChunks } \cup
    { [from |-> 1, dup |-> FALSE, chunk |-> [slot |-> 1, num_chunks |-> 1, chunk_index |-> 0]] }

\* The entries drawn where the threads' progress is checked: the chunks of one
\* slot, and the value of another kind.
AgLiveEntries == { e \in AgEntries : e.chunk.slot = 1 }

\* Injective sequences over a set: the orders a HashMap can be iterated in.
Perms(S) ==
    { o \in [1..Cardinality(S) -> S] : \A i, j \in DOMAIN o : i # j => o[i] # o[j] }

\* cluster_info.get_entries(&mut cursor): the entries past the cursor
get_entries(gossip, cursor) == SubSeq(gossip, cursor + 1, Len(gossip))

\* A recv_loop that sends the pubkey of every entry, whatever its kind.
RECURSIVE signals_all(_)
signals_all(entries) ==
    IF entries = <<>>
    THEN <<>>
    ELSE <<Head(entries).from>> \o signals_all(Tail(entries))

\* The pubkeys recv_loop sends for a batch of entries, in order.
RECURSIVE signals(_)
signals(entries) ==
    IF entries = <<>>
    THEN <<>>
    ELSE (IF Head(entries).dup THEN <<Head(entries).from>> ELSE <<>>) \o signals(Tail(entries))

\* cluster_info.get_duplicate_shreds_from(&pubkey): that peer's chunks
RECURSIVE get_duplicate_shreds_from(_, _)
get_duplicate_shreds_from(gossip, pk) ==
    IF gossip = <<>>
    THEN <<>>
    ELSE (IF Head(gossip).dup /\ Head(gossip).from = pk THEN <<Head(gossip).chunk>> ELSE <<>>)
         \o get_duplicate_shreds_from(Tail(gossip), pk)

\* A pass that keeps the chunks of slots the blockstore already knows.
filter_known_keepsAll(chunks, dups) == chunks

\* .filter(|chunk| blockstore.get_duplicate_slot(chunk.slot).is_none())
filter_known(chunks, dups) ==
    SelectSeq(chunks, LAMBDA c : c.slot \notin dups)

\* A map whose count is that of the last chunk pushed for the slot.
chunks_per_slot_lastCount(chunks) ==
    [ s \in {chunks[i].slot : i \in DOMAIN chunks} |->
        LET cs == SelectSeq(chunks, LAMBDA c : c.slot = s) IN
        [chunks |-> cs, num_chunks |-> cs[Len(cs)].num_chunks] ]

\* chunks_per_slot after the for_each: slot -> (chunks, num_chunks), the
\* count being that of the first chunk inserted for the slot
chunks_per_slot(chunks) ==
    [ s \in {chunks[i].slot : i \in DOMAIN chunks} |->
        LET cs == SelectSeq(chunks, LAMBDA c : c.slot = s) IN
        [chunks |-> cs, num_chunks |-> cs[1].num_chunks] ]

\* duplicate_shred::into_shreds: the chunks are the pieces 0..n-1 of one
\* proof cut in n
into_shreds(chunks) ==
    /\ \A i \in DOMAIN chunks : chunks[i].num_chunks = Len(chunks)
    /\ {chunks[i].chunk_index : i \in DOMAIN chunks} = 0..(Len(chunks) - 1)

\* ingest_duplicate_proof_chunk that also decodes when it has more chunks than
\* num_chunks.
ingest_duplicate_proof_chunk_acceptsMore(slot, chunks, num_chunks, store_fails) ==
    IF Len(chunks) >= num_chunks
    THEN IF into_shreds(chunks)
         THEN [decode |-> TRUE, store |-> TRUE, stored |-> ~store_fails, send |-> TRUE]
         ELSE [decode |-> TRUE, store |-> FALSE, stored |-> FALSE, send |-> FALSE]
    ELSE [decode |-> FALSE, store |-> FALSE, stored |-> FALSE, send |-> FALSE]

\* ingest_duplicate_proof_chunk that stores and notifies whatever it is given.
ingest_duplicate_proof_chunk_anyCount(slot, chunks, num_chunks, store_fails) ==
    [decode |-> TRUE, store |-> TRUE, stored |-> ~store_fails, send |-> TRUE]

\* ingest_duplicate_proof_chunk that stores a decoded proof and keeps silent.
ingest_duplicate_proof_chunk_noSend(slot, chunks, num_chunks, store_fails) ==
    IF Len(chunks) = num_chunks
    THEN IF into_shreds(chunks)
         THEN [decode |-> TRUE, store |-> TRUE, stored |-> ~store_fails, send |-> FALSE]
         ELSE [decode |-> TRUE, store |-> FALSE, stored |-> FALSE, send |-> FALSE]
    ELSE [decode |-> FALSE, store |-> FALSE, stored |-> FALSE, send |-> FALSE]

\* ingest_duplicate_proof_chunk for one slot: whether into_shreds is called,
\* whether store_duplicate_slot is called, whether the blockstore then holds
\* the slot, whether the slot is sent.  The send does not depend on the
\* store's result.
ingest_duplicate_proof_chunk(slot, chunks, num_chunks, store_fails) ==
    IF Len(chunks) = num_chunks
    THEN IF into_shreds(chunks)
         THEN [decode |-> TRUE, store |-> TRUE, stored |-> ~store_fails, send |-> TRUE]
         ELSE [decode |-> TRUE, store |-> FALSE, stored |-> FALSE, send |-> FALSE]
    ELSE [decode |-> FALSE, store |-> FALSE, stored |-> FALSE, send |-> FALSE]

\* A for_each that stops at the first slot whose call did not store its proof.
RECURSIVE ingest_all_stopsAtError(_, _, _, _, _)
ingest_all_stopsAtError(acc, map, order, fails, i) ==
    IF i > Len(order)
    THEN acc
    ELSE LET slot == order[i]
             r == ingest_duplicate_proof_chunk(slot, map[slot].chunks, map[slot].num_chunks,
                                               slot \in fails)
             next == [ dups |-> IF r.stored THEN acc.dups \cup {slot} ELSE acc.dups,
                       stores |-> IF r.store THEN Append(acc.stores, slot) ELSE acc.stores,
                       sent |-> IF r.send THEN Append(acc.sent, slot) ELSE acc.sent,
                       calls |-> Append(acc.calls,
                                        [ slot |-> slot, chunks |-> Len(map[slot].chunks),
                                          given |-> map[slot].chunks,
                                          num_chunks |-> map[slot].num_chunks,
                                          decodes |-> into_shreds(map[slot].chunks),
                                          did |-> r ]) ]
         IN IF r.stored
            THEN ingest_all_stopsAtError(next, map, order, fails, i + 1)
            ELSE next

\* chunks_per_slot.into_iter().for_each(ingest ..) in the given order; `fails`
\* are the slots for which store_duplicate_slot returns an error.
RECURSIVE ingest_all(_, _, _, _, _)
ingest_all(acc, map, order, fails, i) ==
    IF i > Len(order)
    THEN acc
    ELSE LET slot == order[i]
             r == ingest_duplicate_proof_chunk(slot, map[slot].chunks, map[slot].num_chunks,
                                               slot \in fails)
         IN ingest_all([ dups |-> IF r.stored THEN acc.dups \cup {slot} ELSE acc.dups,
                         stores |-> IF r.store THEN Append(acc.stores, slot) ELSE acc.stores,
                         sent |-> IF r.send THEN Append(acc.sent, slot) ELSE acc.sent,
                         calls |-> Append(acc.calls,
                                          [ slot |-> slot, chunks |-> Len(map[slot].chunks),
                                            given |-> map[slot].chunks,
                                            num_chunks |-> map[slot].num_chunks,
                                            decodes |-> into_shreds(map[slot].chunks),
                                            did |-> r ]) ],
                       map, order, fails, i + 1)

\* Occurrences of x in the sequence q
Count(q, x) == Cardinality({i \in DOMAIN q : q[i] = x})

\* The slots for which the peer's chunks, before any filtering, are a complete
\* decodable proof.
Offered(gossip, pk) ==
    LET map == chunks_per_slot(get_duplicate_shreds_from(gossip, pk)) IN
    { s \in DOMAIN map : Len(map[s].chunks) = map[s].num_chunks /\ into_shreds(map[s].chunks) }

Range(q) == {q[i] : i \in DOMAIN q}

----------------------------------------------------------------------------
(* FeatureSet: the active map and the inactive set *)

\* Feature ids listed in FEATURE_NAMES; one more id is known to no list.
NumFeatures == 2
\* Largest activation slot drawn.
MaxFeatureSlot == 2

FEATURE_NAMES == 1..NumFeatures
FtIds == 1..(NumFeatures + 1)
FtSlots == 0..MaxFeatureSlot

\* FeatureSet::default(): all known features disabled
FeatureSet_default ==
    [ active |-> [id \in FtIds |-> None], inactive |-> FEATURE_NAMES ]

\* FeatureSet::all_enabled(): every known feature active since slot 0
all_enabled ==
    [ active |-> [id \in FtIds |-> IF id \in FEATURE_NAMES THEN Some(0) ELSE None],
      inactive |-> {} ]

is_active(self, feature_id) == IsSome(self.active[feature_id])

activated_slot(self, feature_id) == self.active[feature_id]

\* An activate that leaves the id in the inactive set.
activate_keepsInactive(self, feature_id, slot) ==
    [ active |-> [self.active EXCEPT ![feature_id] = Some(slot)],
      inactive |-> self.inactive ]

\* activate: inactive.remove(id); active.insert(id, slot)
activate(self, feature_id, slot) ==
    [ active |-> [self.active EXCEPT ![feature_id] = Some(slot)],
      inactive |-> self.inactive \ {feature_id} ]

\* deactivate: active.remove(id); inactive.insert(id)
deactivate(self, feature_id) ==
    [ active |-> [self.active EXCEPT ![feature_id] = None],
      inactive |-> self.inactive \cup {feature_id} ]

----------------------------------------------------------------------------
(* Initial values of each subsystem's variables *)

InitTw ==
    /\ tw_tower \in Towers
    /\ tw_key \in Keys
    /\ tw_version \in Versions
    /\ tw_new = None
    /\ tw_wire = None
    /\ tw_tampered = FALSE
    /\ tw_loaded = None
    /\ tw_call = None

IdleTw ==
    /\ tw_tower = CHOOSE t \in Towers : TRUE
    /\ tw_key = 1
    /\ tw_version = "Current"
    /\ tw_new = None
    /\ tw_wire = None
    /\ tw_tampered = FALSE
    /\ tw_loaded = None
    /\ tw_call = None

InitEt ==
    /\ etcd_instance = [k \in EtKeys |-> None]
    /\ etcd_tower = [k \in EtKeys |-> None]
    /\ et_pc = [i \in Instances |-> "idle"]
    /\ et_key = [i \in Instances |-> DefaultPubkey]
    /\ et_last = None
    /\ et_acquirer = [k \in EtKeys |-> None]
    /\ et_done = [i \in Instances |-> [k \in EtKeys |-> FALSE]]
    /\ et_began = [i \in Instances |-> {}]
    /\ et_later = [i \in Instances |-> [k \in EtKeys |-> {}]]

\* etcd as the instances may find it: "<P>/tower" absent, or holding a value
\* that is not an encoded envelope (the empty value).
InitEtStale ==
    /\ etcd_instance = [k \in EtKeys |-> None]
    /\ etcd_tower \in { [k \in EtKeys |-> IF k \in S THEN Some(<<>>) ELSE None] :
                          S \in SUBSET EtLoadKeys }
    /\ et_pc = [i \in Instances |-> "idle"]
    /\ et_key = [i \in Instances |-> DefaultPubkey]
    /\ et_last = None
    /\ et_acquirer = [k \in EtKeys |-> None]
    /\ et_done = [i \in Instances |-> [k \in EtKeys |-> FALSE]]
    /\ et_began = [i \in Instances |-> {}]
    /\ et_later = [i \in Instances |-> [k \in EtKeys |-> {}]]

\* etcd where "<Pubkey::default()>/instance" may already be held by the first
\* instance, from a load(Pubkey::default()) it made earlier.
InitEtHeld ==
    /\ etcd_instance \in { [k \in EtKeys |-> IF k = DefaultPubkey THEN h ELSE None] :
                             h \in {None, Some(instance_id(1))} }
    /\ etcd_tower = [k \in EtKeys |-> None]
    /\ et_pc = [i \in Instances |-> "idle"]
    /\ et_key = [i \in Instances |-> DefaultPubkey]
    /\ et_last = None
    /\ et_acquirer = [k \in EtKeys |-> None]
    /\ et_done = [i \in Instances |-> [k \in EtKeys |-> FALSE]]
    /\ et_began = [i \in Instances |-> {}]
    /\ et_later = [i \in Instances |-> [k \in EtKeys |-> {}]]

\* No EtcdTowerStorage is in use.
IdleEt ==
    /\ etcd_instance = [k \in EtKeys |-> None]
    /\ etcd_tower = [k \in EtKeys |-> None]
    /\ et_pc = [i \in Instances |-> "off"]
    /\ et_key = [i \in Instances |-> DefaultPubkey]
    /\ et_last = None
    /\ et_acquirer = [k \in EtKeys |-> None]
    /\ et_done = [i \in Instances |-> [k \in EtKeys |-> FALSE]]
    /\ et_began = [i \in Instances |-> {}]
    /\ et_later = [i \in Instances |-> [k \in EtKeys |-> {}]]

InitFs ==
    /\ fs_files = [n \in FsNames |-> None]
    /\ fs_migration \in BOOLEAN
    /\ fs_pc = "idle"
    /\ fs_saved = None
    /\ fs_written = 0
    /\ fs_prior = None
    /\ fs_done = [k \in FsKeys |-> None]
    /\ fs_load = None
    /\ fs_crashes = 0

\* No FileTowerStorage is in use.
IdleFs ==
    /\ fs_files = [n \in FsNames |-> None]
    /\ fs_migration = FALSE
    /\ fs_pc = "off"
    /\ fs_saved = None
    /\ fs_written = 0
    /\ fs_prior = None
    /\ fs_done = [k \in FsKeys |-> None]
    /\ fs_load = None
    /\ fs_crashes = 0

InitLv ==
    /\ latest_votes_per_pubkey = [pk \in LvPubkeys |-> None]
    /\ size = 0
    /\ lv_next = 1
    /\ lv_drains = 0
    /\ lv_last = None
    /\ lv_max = [pk \in LvPubkeys |-> None]

InitAg ==
    /\ ag_gossip = <<>>
    /\ ag_cursor = 0
    /\ ag_chan = <<>>
    /\ ag_batch = <<>>
    /\ ag_lpc = "run"
    /\ ag_pc = "head"
    /\ ag_dups \in {{}, {1}}
    /\ ag_sent = <<>>
    /\ ag_stores = <<>>
    /\ ag_known = {}
    /\ ag_passSent = {}
    /\ ag_passStored = {}
    /\ ag_passOffered = {}
    /\ ag_exit = FALSE
    /\ ag_calls = <<>>
    /\ ag_partial = {}
    /\ ag_afterExit = 0
    /\ ag_signalled = <<>>
    /\ ag_run = None

IdleAg ==
    /\ ag_gossip = <<>>
    /\ ag_cursor = 0
    /\ ag_chan = <<>>
    /\ ag_batch = <<>>
    /\ ag_lpc = "run"
    /\ ag_pc = "head"
    /\ ag_dups = {}
    /\ ag_sent = <<>>
    /\ ag_stores = <<>>
    /\ ag_known = {}
    /\ ag_passSent = {}
    /\ ag_passStored = {}
    /\ ag_passOffered = {}
    /\ ag_exit = FALSE
    /\ ag_calls = <<>>
    /\ ag_partial = {}
    /\ ag_afterExit = 0
    /\ ag_signalled = <<>>
    /\ ag_run = None

InitSv ==
    /\ sv_storage \in Storages
    /\ sv_held = [k \in Pubkeys |-> None]
    /\ sv_calls = 0
    /\ sv_last = None

IdleSv ==
    /\ sv_storage = "Null"
    /\ sv_held = [k \in Pubkeys |-> None]
    /\ sv_calls = 0
    /\ sv_last = None

\* The map is empty, or holds for the pubkey an earlier vote (packet 0) for
\* the lowest slot; every thread is about to call update_vote.
InitCv ==
    /\ cv_entry \in {None, Some([slot |-> 1, packet |-> Some(0)])}
    /\ cv_size = (IF cv_entry = None THEN 0 ELSE 1)
    /\ cv_pc = [t \in Threads |-> "start"]
    /\ cv_slot \in [Threads -> 1..MaxVoteSlot]
    /\ cv_latest = [t \in Threads |-> 0]
    /\ cv_ret = [t \in Threads |-> None]

IdleCv ==
    /\ cv_entry = None
    /\ cv_size = 0
    /\ cv_pc = [t \in Threads |-> "start"]
    /\ cv_slot = [t \in Threads |-> 1]
    /\ cv_latest = [t \in Threads |-> 0]
    /\ cv_ret = [t \in Threads |-> None]

InitFt ==
    /\ \E fs \in {FeatureSet_default, all_enabled} :
          /\ active = fs.active
          /\ inactive = fs.inactive
    /\ ft_recent = [id \in FtIds |-> None]

IdleFt ==
    /\ active = FeatureSet_default.active
    /\ inactive = FeatureSet_default.inactive
    /\ ft_recent = [id \in FtIds |-> None]

----------------------------------------------------------------------------
(* SpecTower: SavedTower::new, the envelope's trip through its encoded form,
   and try_into_tower, applied to every drawn tower, keypair and version *)

\* let saved = SavedTower::new(&tower, &keypair)
TwNew ==
    /\ tw_new = None
    /\ tw_new' = Some(SavedTower_new(tw_tower, tw_key, tw_version))
    /\ UNCHANGED <<tw_tower, tw_key, tw_version, tw_wire, tw_tampered, tw_loaded, tw_call>>
    /\ UNCHANGED <<etVars, fsVars, lvVars, agVars, svVars, cvVars, ftVars>>

\* saved.serialize_into(..): the envelope's bytes as a backend keeps them
TwSerialize ==
    /\ IsSome(tw_new) /\ Unwrap(tw_new).ok
    /\ tw_wire = None
    /\ tw_wire' = Some(SavedTower_serialize(Unwrap(Unwrap(tw_new).val)))
    /\ UNCHANGED <<tw_tower, tw_key, tw_version, tw_new, tw_tampered, tw_loaded, tw_call>>
    /\ UNCHANGED <<etVars, fsVars, lvVars, agVars, svVars, cvVars, ftVars>>

\* Somebody with access to the stored bytes changes one byte of `data`.
TwTamper ==
    /\ IsSome(tw_wire) /\ ~tw_tampered /\ tw_loaded = None
    /\ \E i \in 3..Len(Unwrap(tw_wire)) : \E b \in Bytes \ {Unwrap(tw_wire)[i]} :
          tw_wire' = Some([Unwrap(tw_wire) EXCEPT ![i] = b])
    /\ tw_tampered' = TRUE
    /\ UNCHANGED <<tw_tower, tw_key, tw_version, tw_new, tw_loaded, tw_call>>
    /\ UNCHANGED <<etVars, fsVars, lvVars, agVars, svVars, cvVars, ftVars>>

\* bincode::deserialize_from(..) in a backend's load
TwDeserialize ==
    /\ IsSome(tw_wire) /\ tw_loaded = None
    /\ tw_loaded' = Some(SavedTower_deserialize(Unwrap(tw_wire), tw_version))
    /\ UNCHANGED <<tw_tower, tw_key, tw_version, tw_new, tw_wire, tw_tampered, tw_call>>
    /\ UNCHANGED <<etVars, fsVars, lvVars, agVars, svVars, cvVars, ftVars>>

\* envelope.try_into_tower(&node_pubkey), on the envelope SavedTower::new
\* returned ("fresh") or on the one read back ("loaded")
TwTryFresh ==
    /\ IsSome(tw_new) /\ Unwrap(tw_new).ok
    /\ \E p \in Pubkeys :
          LET env == Unwrap(Unwrap(tw_new).val) IN
          tw_call' = Some([on |-> "fresh", env |-> env, arg |-> p,
                           res |-> try_into_tower(env, p)])
    /\ UNCHANGED <<tw_tower, tw_key, tw_version, tw_new, tw_wire, tw_tampered, tw_loaded>>
    /\ UNCHANGED <<etVars, fsVars, lvVars, agVars, svVars, cvVars, ftVars>>

TwTryLoaded ==
    /\ IsSome(tw_loaded) /\ Unwrap(tw_loaded).ok
    /\ \E p \in Pubkeys :
          LET env == Unwrap(Unwrap(tw_loaded).val) IN
          tw_call' = Some([on |-> "loaded", env |-> env, arg |-> p,
                           res |-> try_into_tower(env, p)])
    /\ UNCHANGED <<tw_tower, tw_key, tw_version, tw_new, tw_wire, tw_tampered, tw_loaded>>
    /\ UNCHANGED <<etVars, fsVars, lvVars, agVars, svVars, cvVars, ftVars>>

----------------------------------------------------------------------------
(* SpecEtcd: EtcdTowerStorage instances (processes) loading and storing
   against one etcd store; the two transactions of a load are separate steps *)

\* What a finished call leaves in et_last: the call, its result, the value of
\* "<key>/tower" before and after it, and where the caller stood when it ran.
EtRecord(i, op, key, res, saved, stored, after) ==
    [ inst |-> i, op |-> op, key |-> key, res |-> res, saved |-> saved, stored |-> stored,
      before |-> etcd_tower[key], after |-> after,
      acquirer |-> et_acquirer[key],
      done |-> et_done[i][key],
      later |-> et_later[i][key],
      after_of |-> {a \in Instances : i \in et_later[a][key]} ]

\* load, up to and including its first transaction
EtLoadAcquire(i, P) ==
    /\ et_pc[i] = "idle"
    /\ etcd_instance' = load_txn1(etcd_instance, P, instance_id(i))
    /\ et_pc' = [et_pc EXCEPT ![i] = "acquired"]
    /\ et_key' = [et_key EXCEPT ![i] = P]
    /\ et_acquirer' = [et_acquirer EXCEPT ![P] = Some(i)]
    /\ et_done' = [et_done EXCEPT ![i][P] = FALSE]
    /\ et_later' = [et_later EXCEPT ![i][P] = {}]
    /\ et_began' = [j \in Instances |->
                      IF j = i
                      THEN {k \in Instances \ {i} : et_done[k][P]}
                      ELSE IF et_pc[j] = "acquired" /\ et_key[j] = P
                           THEN et_began[j] \ {i}
                           ELSE et_began[j]]
    /\ UNCHANGED <<etcd_tower, et_last>>
    /\ UNCHANGED <<twVars, fsVars, lvVars, agVars, svVars, cvVars, ftVars>>

\* A load that, when it returns an error, deletes "<P>/instance" again.
EtLoadGet_rollsBack(i) ==
    /\ et_pc[i] = "acquired"
    /\ LET P == et_key[i]
           res == load_txn2(etcd_instance, etcd_tower, P, instance_id(i), migration(i))
       IN /\ et_last' = Some(EtRecord(i, "load", P, res, None, None, etcd_tower[P]))
          /\ et_done' = [et_done EXCEPT ![i][P] = TRUE]
          /\ et_later' = [k \in Instances |->
                            IF k \in et_began[i]
                            THEN [et_later[k] EXCEPT ![P] = @ \cup {i}]
                            ELSE et_later[k]]
          /\ etcd_instance' = IF res.ok THEN etcd_instance
                                        ELSE [etcd_instance EXCEPT ![P] = None]
    /\ et_began' = [et_began EXCEPT ![i] = {}]
    /\ et_pc' = [et_pc EXCEPT ![i] = "idle"]
    /\ UNCHANGED <<etcd_tower, et_key, et_acquirer>>
    /\ UNCHANGED <<twVars, fsVars, lvVars, agVars, svVars, cvVars, ftVars>>

\* load, from its second transaction to its return
EtLoadGet(i) ==
    /\ et_pc[i] = "acquired"
    /\ LET P == et_key[i]
           res == load_txn2(etcd_instance, etcd_tower, P, instance_id(i), migration(i))
       IN /\ et_last' = Some(EtRecord(i, "load", P, res, None, None, etcd_tower[P]))
          /\ et_done' = [et_done EXCEPT ![i][P] = TRUE]
          /\ et_later' = [k \in Instances |->
                            IF k \in et_began[i]
                            THEN [et_later[k] EXCEPT ![P] = @ \cup {i}]
                            ELSE et_later[k]]
    /\ et_began' = [et_began EXCEPT ![i] = {}]
    /\ et_pc' = [et_pc EXCEPT ![i] = "idle"]
    /\ UNCHANGED <<etcd_instance, etcd_tower, et_key, et_acquirer>>
    /\ UNCHANGED <<twVars, fsVars, lvVars, agVars, svVars, cvVars, ftVars>>

\* store(saved_tower)
EtStoreWith(i, saved) ==
    /\ et_pc[i] = "idle"
    /\ LET r == store_txn(etcd_instance, etcd_tower, saved, instance_id(i)) IN
          /\ etcd_tower' = r.towers
          /\ et_last' = Some(EtRecord(i, "store", pubkey(saved), r.res, Some(saved),
                                      Some(SavedTower_serialize(saved)),
                                      r.towers[pubkey(saved)]))
    /\ UNCHANGED <<etcd_instance, et_pc, et_key, et_acquirer, et_done, et_began, et_later>>
    /\ UNCHANGED <<twVars, fsVars, lvVars, agVars, svVars, cvVars, ftVars>>

\* store of an envelope made by SavedTower::new
EtStore ==
    \E i \in Instances : \E saved \in EtEnvelopes(i) : EtStoreWith(i, saved)

\* store of the envelope the instance's load just returned
EtStoreLoaded ==
    \E i \in Instances :
        /\ IsSome(et_last)
        /\ Unwrap(et_last).inst = i /\ Unwrap(et_last).op = "load" /\ Unwrap(et_last).res.ok
        /\ EtStoreWith(i, Unwrap(Unwrap(et_last).res.val))

EtLoadBegin == \E i \in Instances : \E P \in EtLoadKeys : EtLoadAcquire(i, P)

EtLoadEnd == \E i \in Instances : EtLoadGet(i)


----------------------------------------------------------------------------
(* SpecFile: one validator process using FileTowerStorage; store runs as
   create, a write per encoded cell, and rename, and the process may crash
   between any two of them and restart *)

\* store, up to File::create(&new_filename): the file exists and is empty
FsCreateWith(saved) ==
    /\ fs_pc = "idle"
    /\ fs_files' = [fs_files EXCEPT ![new_filename(pubkey(saved))] = Some(<<>>)]
    /\ fs_prior' = fs_files[filename(pubkey(saved))]
    /\ fs_saved' = Some(saved)
    /\ fs_written' = 0
    /\ fs_pc' = "writing"
    /\ UNCHANGED <<fs_migration, fs_done, fs_load, fs_crashes>>
    /\ UNCHANGED <<twVars, etVars, lvVars, agVars, svVars, cvVars, ftVars>>

\* store of an envelope made by SavedTower::new
FsCreate == \E saved \in FsEnvelopes : FsCreateWith(saved)

\* store of the envelope the last load returned
FsCreateLoaded ==
    /\ IsSome(fs_load) /\ Unwrap(fs_load).res.ok
    /\ FsCreateWith(Unwrap(Unwrap(fs_load).res.val))

\* saved_tower.serialize_into(&mut file): the next cell reaches the file
FsWrite ==
    /\ fs_pc = "writing"
    /\ LET saved == Unwrap(fs_saved)
           wire == SavedTower_serialize(saved)
           name == new_filename(pubkey(saved))
       IN /\ fs_written < Len(wire)
          /\ fs_files' = [fs_files EXCEPT ![name] = Some(Unwrap(@) \o <<wire[fs_written + 1]>>)]
          /\ fs_written' = fs_written + 1
    /\ UNCHANGED <<fs_migration, fs_pc, fs_saved, fs_prior, fs_done, fs_load, fs_crashes>>
    /\ UNCHANGED <<twVars, etVars, lvVars, agVars, svVars, cvVars, ftVars>>

\* a write fails: store returns the error, the new file stays as it is
FsWriteError ==
    /\ fs_pc = "writing"
    /\ fs_written < Len(SavedTower_serialize(Unwrap(fs_saved)))
    /\ fs_pc' = "idle"
    /\ fs_saved' = None
    /\ fs_written' = 0
    /\ fs_prior' = None
    /\ UNCHANGED <<fs_files, fs_migration, fs_done, fs_load, fs_crashes>>
    /\ UNCHANGED <<twVars, etVars, lvVars, agVars, svVars, cvVars, ftVars>>

\* the file is closed; fs::rename(&new_filename, &filename); Ok(())
FsRename ==
    /\ fs_pc = "writing"
    /\ LET saved == Unwrap(fs_saved)
           wire == SavedTower_serialize(saved)
       IN /\ fs_written = Len(wire)
          /\ fs_files' = rename(fs_files, new_filename(pubkey(saved)), filename(pubkey(saved)))
          /\ fs_done' = [fs_done EXCEPT ![pubkey(saved)] = Some(wire)]
    /\ fs_pc' = "idle"
    /\ fs_saved' = None
    /\ fs_written' = 0
    /\ fs_prior' = None
    /\ UNCHANGED <<fs_migration, fs_load, fs_crashes>>
    /\ UNCHANGED <<twVars, etVars, lvVars, agVars, svVars, cvVars, ftVars>>

\* the process dies during a store and is started again: the files stay
FsCrash ==
    /\ fs_pc = "writing"
    /\ fs_crashes < MaxCrashes
    /\ fs_crashes' = fs_crashes + 1
    /\ fs_pc' = "idle"
    /\ fs_saved' = None
    /\ fs_written' = 0
    /\ fs_prior' = None
    /\ fs_load' = None
    /\ UNCHANGED <<fs_files, fs_migration, fs_done>>
    /\ UNCHANGED <<twVars, etVars, lvVars, agVars, svVars, cvVars, ftVars>>

\* load(node_pubkey)
FsLoad ==
    /\ fs_pc = "idle"
    /\ \E P \in FsKeys :
          LET file == fs_files[filename(P)]
              res == IF file = None
                     THEN Err("IoError")
                     ELSE SavedTower_deserialize(Unwrap(file),
                                                 IF fs_migration THEN "V1_7_14" ELSE "Current")
          IN fs_load' = Some([key |-> P, res |-> res, crashes |-> fs_crashes,
                              done |-> fs_done[P]])
    /\ UNCHANGED <<fs_files, fs_migration, fs_pc, fs_saved, fs_written, fs_prior, fs_done,
                   fs_crashes>>
    /\ UNCHANGED <<twVars, etVars, lvVars, agVars, svVars, cvVars, ftVars>>

----------------------------------------------------------------------------
(* SpecVotes: update_vote and drain_unprocessed_votes_by_stake called one
   after the other on one LatestUnprocessedVotes *)

LvUpdateVote ==
    /\ lv_next <= MaxPackets
    /\ \E pk \in LvPubkeys : \E slot \in 0..MaxVoteSlot :
          LET r == update_vote(latest_votes_per_pubkey, size, pk, slot, lv_next) IN
          /\ latest_votes_per_pubkey' = r.votes
          /\ size' = r.size
          /\ lv_last' = Some([ op |-> "update_vote", pubkey |-> pk, slot |-> slot,
                               vote |-> lv_next, ret |-> r.ret, order |-> <<>>,
                               yielded |-> <<>>,
                               before |-> latest_votes_per_pubkey, size_before |-> size ])
          /\ lv_max' = [lv_max EXCEPT ![pk] =
                           IF IsSome(@) /\ Unwrap(@) >= slot THEN @ ELSE Some(slot)]
    /\ lv_next' = lv_next + 1
    /\ UNCHANGED lv_drains
    /\ UNCHANGED <<twVars, etVars, fsVars, agVars, svVars, cvVars, ftVars>>

LvDrain ==
    /\ lv_drains < MaxDrains
    /\ \E order \in StakedOrders :
          LET r == drain_unprocessed_votes_by_stake(latest_votes_per_pubkey, size, order) IN
          /\ latest_votes_per_pubkey' = r.votes
          /\ size' = r.size
          /\ lv_last' = Some([ op |-> "drain", pubkey |-> 0, slot |-> 0,
                               vote |-> 0, ret |-> None, order |-> order,
                               yielded |-> r.yielded,
                               before |-> latest_votes_per_pubkey, size_before |-> size ])
    /\ lv_drains' = lv_drains + 1
    /\ UNCHANGED <<lv_next, lv_max>>
    /\ UNCHANGED <<twVars, etVars, fsVars, agVars, svVars, cvVars, ftVars>>

----------------------------------------------------------------------------
(* SpecAggr: the gossip layer receiving entries, recv_loop forwarding the
   peers' pubkeys, reconstruct_duplicate_shred_proofs_loop processing them *)

\* A peer's value enters the gossip table.
AgGossip ==
    /\ Len(ag_gossip) < MaxGossip
    /\ \E e \in AgEntries : ag_gossip' = Append(ag_gossip, e)
    /\ UNCHANGED <<ag_cursor, ag_chan, ag_batch, ag_lpc, ag_pc, ag_dups, ag_sent, ag_stores,
                   ag_known, ag_passSent, ag_passStored, ag_passOffered, ag_exit>>
    /\ UNCHANGED <<ag_calls, ag_partial, ag_afterExit, ag_signalled, ag_run>>
    /\ UNCHANGED <<twVars, etVars, fsVars, lvVars, svVars, cvVars, ftVars>>

\* A peer's value for the one slot enters the gossip table.
AgGossipLive ==
    /\ Len(ag_gossip) < MaxGossip
    /\ \E e \in AgLiveEntries : ag_gossip' = Append(ag_gossip, e)
    /\ UNCHANGED <<ag_cursor, ag_chan, ag_batch, ag_lpc, ag_pc, ag_dups, ag_sent, ag_stores,
                   ag_known, ag_passSent, ag_passStored, ag_passOffered, ag_exit>>
    /\ UNCHANGED <<ag_calls, ag_partial, ag_afterExit, ag_signalled, ag_run>>
    /\ UNCHANGED <<twVars, etVars, fsVars, lvVars, svVars, cvVars, ftVars>>

\* exit.store(true)
AgSetExit ==
    /\ ~ag_exit
    /\ ag_exit' = TRUE
    /\ UNCHANGED <<ag_gossip, ag_cursor, ag_chan, ag_batch, ag_lpc, ag_pc, ag_dups, ag_sent,
                   ag_stores, ag_known, ag_passSent, ag_passStored, ag_passOffered>>
    /\ UNCHANGED <<ag_calls, ag_partial, ag_afterExit, ag_signalled, ag_run>>
    /\ UNCHANGED <<twVars, etVars, fsVars, lvVars, svVars, cvVars, ftVars>>

\* recv_loop: the while condition finds the exit flag unset
AgListenEnter ==
    /\ ag_lpc = "run" /\ ~ag_exit
    /\ ag_lpc' = "body"
    /\ UNCHANGED <<ag_gossip, ag_cursor, ag_chan, ag_batch, ag_pc, ag_dups, ag_sent, ag_stores,
                   ag_known, ag_passSent, ag_passStored, ag_passOffered, ag_exit>>
    /\ UNCHANGED <<ag_calls, ag_partial, ag_afterExit, ag_signalled, ag_run>>
    /\ UNCHANGED <<twVars, etVars, fsVars, lvVars, svVars, cvVars, ftVars>>

\* recv_loop: the body of one iteration: get_entries, a send per entry, sleep;
\* a send to a channel whose receiver is gone fails and is logged
AgListen ==
    /\ ag_lpc = "body"
    /\ LET sigs == signals(get_entries(ag_gossip, ag_cursor))
           ok == ag_pc # "exit"
       IN /\ ag_chan' = IF ok THEN ag_chan \o sigs ELSE ag_chan
          /\ ag_signalled' = ag_signalled \o
                               [ i \in DOMAIN sigs |->
                                   [pubkey |-> sigs[i], ok |-> ok, at |-> ag_cursor] ]
    /\ ag_cursor' = Len(ag_gossip)
    /\ ag_lpc' = "run"
    /\ UNCHANGED <<ag_gossip, ag_batch, ag_pc, ag_dups, ag_sent, ag_stores,
                   ag_known, ag_passSent, ag_passStored, ag_passOffered, ag_exit>>
    /\ UNCHANGED <<ag_calls, ag_partial, ag_afterExit, ag_run>>
    /\ UNCHANGED <<twVars, etVars, fsVars, lvVars, svVars, cvVars, ftVars>>

\* recv_loop: the while condition sees the exit flag; the sender is dropped
AgListenExit ==
    /\ ag_lpc = "run" /\ ag_exit
    /\ ag_lpc' = "exit"
    /\ UNCHANGED <<ag_gossip, ag_cursor, ag_chan, ag_batch, ag_pc, ag_dups, ag_sent, ag_stores,
                   ag_known, ag_passSent, ag_passStored, ag_passOffered, ag_exit>>
    /\ UNCHANGED <<ag_calls, ag_partial, ag_afterExit, ag_signalled, ag_run>>
    /\ UNCHANGED <<twVars, etVars, fsVars, lvVars, svVars, cvVars, ftVars>>

\* A loop head that does not look at the exit flag.
AgHead_ignoresExit ==
    /\ ag_pc = "head"
    /\ ag_pc' = "recv"
    /\ UNCHANGED <<ag_gossip, ag_cursor, ag_chan, ag_batch, ag_lpc, ag_dups, ag_sent, ag_stores,
                   ag_known, ag_passSent, ag_passStored, ag_passOffered, ag_exit>>
    /\ UNCHANGED <<ag_calls, ag_partial, ag_afterExit, ag_signalled, ag_run>>
    /\ UNCHANGED <<twVars, etVars, fsVars, lvVars, svVars, cvVars, ftVars>>

\* the loop head: return when the exit flag is set, else go on to recv()
AgHead ==
    /\ ag_pc = "head"
    /\ ag_pc' = IF ag_exit THEN "exit" ELSE "recv"
    /\ UNCHANGED <<ag_gossip, ag_cursor, ag_chan, ag_batch, ag_lpc, ag_dups, ag_sent, ag_stores,
                   ag_known, ag_passSent, ag_passStored, ag_passOffered, ag_exit>>
    /\ UNCHANGED <<ag_calls, ag_partial, ag_afterExit, ag_signalled, ag_run>>
    /\ UNCHANGED <<twVars, etVars, fsVars, lvVars, svVars, cvVars, ftVars>>

\* A recv() whose batch is the received pubkey alone: what else is queued is
\* taken off the channel and dropped.
AgRecv_dropsQueued ==
    /\ ag_pc = "recv"
    /\ ag_chan # <<>>
    /\ ag_batch' = <<Head(ag_chan)>>
    /\ ag_chan' = <<>>
    /\ ag_pc' = "batch"
    /\ ag_known' = ag_dups
    /\ ag_passSent' = {}
    /\ ag_passStored' = {}
    /\ ag_passOffered' = {}
    /\ UNCHANGED <<ag_gossip, ag_cursor, ag_lpc, ag_dups, ag_sent, ag_stores, ag_exit>>
    /\ ag_afterExit' = (IF ag_exit THEN ag_afterExit + 1 ELSE ag_afterExit)
    /\ UNCHANGED <<ag_calls, ag_partial, ag_signalled, ag_run>>
    /\ UNCHANGED <<twVars, etVars, fsVars, lvVars, svVars, cvVars, ftVars>>

\* recv() returns a pubkey; try_iter() takes what else is queued; the batch is
\* the queued pubkeys followed by the received one
AgRecv ==
    /\ ag_pc = "recv"
    /\ ag_chan # <<>>
    /\ ag_batch' = Tail(ag_chan) \o <<Head(ag_chan)>>
    /\ ag_chan' = <<>>
    /\ ag_pc' = "batch"
    /\ ag_known' = ag_dups
    /\ ag_passSent' = {}
    /\ ag_passStored' = {}
    /\ ag_passOffered' = {}
    /\ UNCHANGED <<ag_gossip, ag_cursor, ag_lpc, ag_dups, ag_sent, ag_stores, ag_exit>>
    /\ ag_afterExit' = (IF ag_exit THEN ag_afterExit + 1 ELSE ag_afterExit)
    /\ UNCHANGED <<ag_calls, ag_partial, ag_signalled, ag_run>>
    /\ UNCHANGED <<twVars, etVars, fsVars, lvVars, svVars, cvVars, ftVars>>

\* recv() fails because the channel is empty and its sender is gone: continue
AgRecvError ==
    /\ ag_pc = "recv"
    /\ ag_chan = <<>> /\ ag_lpc = "exit"
    /\ ag_pc' = "head"
    /\ UNCHANGED <<ag_gossip, ag_cursor, ag_chan, ag_batch, ag_lpc, ag_dups, ag_sent, ag_stores,
                   ag_known, ag_passSent, ag_passStored, ag_passOffered, ag_exit>>
    /\ UNCHANGED <<ag_calls, ag_partial, ag_afterExit, ag_signalled, ag_run>>
    /\ UNCHANGED <<twVars, etVars, fsVars, lvVars, svVars, cvVars, ftVars>>

\* A closure that groups the chunks of every peer, not only the signalled one's.
AgProcess_anyPeer ==
    /\ ag_pc = "batch"
    /\ LET pk == Head(ag_batch)
           RECURSIVE every(_)
           every(g) == IF g = <<>> THEN <<>>
                       ELSE (IF Head(g).dup THEN <<Head(g).chunk>> ELSE <<>>) \o every(Tail(g))
           map == chunks_per_slot(filter_known(every(ag_gossip), ag_dups))
       IN \E order \in Perms(DOMAIN map) : \E fails \in SUBSET (DOMAIN map) :
             LET r == ingest_all([dups |-> ag_dups, stores |-> <<>>, sent |-> <<>>,
                                  calls |-> <<>>],
                                 map, order, fails, 1)
             IN /\ ag_calls' = [ i \in DOMAIN r.calls |->
                                  [ peer |-> pk, call |-> r.calls[i],
                                    was_partial |-> <<pk, r.calls[i].slot>> \in ag_partial,
                                    sent_before |-> Count(ag_sent, r.calls[i].slot) ] ]
                /\ ag_partial' = ag_partial \cup
                                 { <<pk, r.calls[i].slot>> : i \in
                                     { j \in DOMAIN r.calls :
                                         r.calls[j].chunks < r.calls[j].num_chunks } }
                /\ ag_run' = Some([ pubkey |-> pk, gossip |-> Len(ag_gossip),
                                    dups |-> ag_dups, rest |-> Len(ag_batch) - 1 ])
                /\ ag_dups' = r.dups
                /\ ag_sent' = ag_sent \o r.sent
                /\ ag_stores' = ag_stores \o r.stores
                /\ ag_passSent' = ag_passSent \cup Range(r.sent)
                /\ ag_passStored' = ag_passStored \cup Range(r.stores)
                /\ ag_passOffered' = ag_passOffered \cup Offered(ag_gossip, pk)
    /\ ag_batch' = Tail(ag_batch)
    /\ ag_pc' = IF Tail(ag_batch) = <<>> THEN "head" ELSE "batch"
    /\ UNCHANGED <<ag_gossip, ag_cursor, ag_chan, ag_lpc, ag_known, ag_exit>>
    /\ UNCHANGED <<ag_afterExit, ag_signalled>>
    /\ UNCHANGED <<twVars, etVars, fsVars, lvVars, svVars, cvVars, ftVars>>

\* A closure whose map is not new: it still holds the chunks the calls of the
\* pubkey processed before were given.
AgProcess_keepsMap ==
    /\ ag_pc = "batch"
    /\ LET pk == Head(ag_batch)
           RECURSIVE kept(_)
           kept(i) == IF i > Len(ag_calls) THEN <<>> ELSE ag_calls[i].call.given \o kept(i + 1)
           map == chunks_per_slot(kept(1) \o
                                  filter_known(get_duplicate_shreds_from(ag_gossip, pk), ag_dups))
       IN \E order \in Perms(DOMAIN map) : \E fails \in SUBSET (DOMAIN map) :
             LET r == ingest_all([dups |-> ag_dups, stores |-> <<>>, sent |-> <<>>,
                                  calls |-> <<>>],
                                 map, order, fails, 1)
             IN /\ ag_calls' = [ i \in DOMAIN r.calls |->
                                  [ peer |-> pk, call |-> r.calls[i],
                                    was_partial |-> <<pk, r.calls[i].slot>> \in ag_partial,
                                    sent_before |-> Count(ag_sent, r.calls[i].slot) ] ]
                /\ ag_partial' = ag_partial \cup
                                 { <<pk, r.calls[i].slot>> : i \in
                                     { j \in DOMAIN r.calls :
                                         r.calls[j].chunks < r.calls[j].num_chunks } }
                /\ ag_run' = Some([ pubkey |-> pk, gossip |-> Len(ag_gossip),
                                    dups |-> ag_dups, rest |-> Len(ag_batch) - 1 ])
                /\ ag_dups' = r.dups
                /\ ag_sent' = ag_sent \o r.sent
                /\ ag_stores' = ag_stores \o r.stores
                /\ ag_passSent' = ag_passSent \cup Range(r.sent)
                /\ ag_passStored' = ag_passStored \cup Range(r.stores)
                /\ ag_passOffered' = ag_passOffered \cup Offered(ag_gossip, pk)
    /\ ag_batch' = Tail(ag_batch)
    /\ ag_pc' = IF Tail(ag_batch) = <<>> THEN "head" ELSE "batch"
    /\ UNCHANGED <<ag_gossip, ag_cursor, ag_chan, ag_lpc, ag_known, ag_exit>>
    /\ UNCHANGED <<ag_afterExit, ag_signalled>>
    /\ UNCHANGED <<twVars, etVars, fsVars, lvVars, svVars, cvVars, ftVars>>

\* The for_each closure for the next pubkey of the batch: query, filter,
\* group by slot, ingest every slot; after the last pubkey, sleep and loop.
AgProcess ==
    /\ ag_pc = "batch"
    /\ LET pk == Head(ag_batch)
           map == chunks_per_slot(filter_known(get_duplicate_shreds_from(ag_gossip, pk), ag_dups))
       IN \E order \in Perms(DOMAIN map) : \E fails \in SUBSET (DOMAIN map) :
             LET r == ingest_all([dups |-> ag_dups, stores |-> <<>>, sent |-> <<>>,
                                  calls |-> <<>>],
                                 map, order, fails, 1)
             IN /\ ag_calls' = [ i \in DOMAIN r.calls |->
                                  [ peer |-> pk, call |-> r.calls[i],
                                    was_partial |-> <<pk, r.calls[i].slot>> \in ag_partial,
                                    sent_before |-> Count(ag_sent, r.calls[i].slot) ] ]
                /\ ag_partial' = ag_partial \cup
                                 { <<pk, r.calls[i].slot>> : i \in
                                     { j \in DOMAIN r.calls :
                                         r.calls[j].chunks < r.calls[j].num_chunks } }
                /\ ag_run' = Some([ pubkey |-> pk, gossip |-> Len(ag_gossip),
                                     dups |-> ag_dups, rest |-> Len(ag_batch) - 1 ])
                /\ ag_dups' = r.dups
                /\ ag_sent' = ag_sent \o r.sent
                /\ ag_stores' = ag_stores \o r.stores
                /\ ag_passSent' = ag_passSent \cup Range(r.sent)
                /\ ag_passStored' = ag_passStored \cup Range(r.stores)
                /\ ag_passOffered' = ag_passOffered \cup Offered(ag_gossip, pk)
    /\ ag_batch' = Tail(ag_batch)
    /\ ag_pc' = IF Tail(ag_batch) = <<>> THEN "head" ELSE "batch"
    /\ UNCHANGED <<ag_gossip, ag_cursor, ag_chan, ag_lpc, ag_known, ag_exit>>
    /\ UNCHANGED <<ag_afterExit, ag_signalled>>
    /\ UNCHANGED <<twVars, etVars, fsVars, lvVars, svVars, cvVars, ftVars>>

----------------------------------------------------------------------------
(* SpecFeature: activate and deactivate called on one FeatureSet *)

\* feature_set.activate(&feature_id, slot)
FtActivate ==
    /\ \E id \in FtIds : \E slot \in FtSlots :
          LET r == activate([active |-> active, inactive |-> inactive], id, slot) IN
          /\ active' = r.active
          /\ inactive' = r.inactive
          /\ ft_recent' = [ft_recent EXCEPT ![id] = Some([op |-> "activate", slot |-> slot])]
    /\ UNCHANGED <<twVars, etVars, fsVars, lvVars, agVars, svVars, cvVars>>

\* feature_set.deactivate(&feature_id)
FtDeactivate ==
    /\ \E id \in FtIds :
          LET r == deactivate([active |-> active, inactive |-> inactive], id) IN
          /\ active' = r.active
          /\ inactive' = r.inactive
          /\ ft_recent' = [ft_recent EXCEPT ![id] = Some([op |-> "deactivate", slot |-> 0])]
    /\ UNCHANGED <<twVars, etVars, fsVars, lvVars, agVars, svVars, cvVars>>

----------------------------------------------------------------------------
(* SpecSave: Tower1_7_14::save, and store and load called directly, on one
   storage object *)

\* tower.save(&tower_storage, &node_keypair)
SvSave ==
    /\ sv_calls < MaxSaves
    /\ \E tower \in SvTowers : \E k \in Keys :
          LET r == Tower1_7_14_save(tower, sv_storage, sv_held, sv_calls, k) IN
          /\ sv_held' = r.held
          /\ sv_calls' = r.calls
          /\ sv_last' = Some([ op |-> "save", tower |-> tower, key |-> k,
                               made |-> SavedTower_new(tower, k, "V1_7_14"),
                               res |-> r.res,
                               held_before |-> sv_held, calls_before |-> sv_calls ])
    /\ UNCHANGED sv_storage
    /\ UNCHANGED <<twVars, etVars, fsVars, lvVars, agVars, cvVars, ftVars>>

\* NullTowerStorage::store(&saved_tower) called directly
SvNullStore ==
    /\ sv_storage = "Null"
    /\ sv_calls < MaxSaves
    /\ \E tower \in SvTowers : \E v \in Versions :
          /\ tower.node_pubkey \in Keys
          /\ LET saved == Unwrap(SavedTower_new(tower, tower.node_pubkey, v).val)
                 r == NullTowerStorage_store(sv_held, saved)
             IN /\ sv_held' = r.held
                /\ sv_calls' = sv_calls + 1
                /\ sv_last' = Some([ op |-> "store", tower |-> tower, key |-> tower.node_pubkey,
                                     made |-> Ok(saved), res |-> r.res,
                                     held_before |-> sv_held, calls_before |-> sv_calls ])
    /\ UNCHANGED sv_storage
    /\ UNCHANGED <<twVars, etVars, fsVars, lvVars, agVars, cvVars, ftVars>>

\* NullTowerStorage::load(&node_pubkey)
SvNullLoad ==
    /\ sv_storage = "Null"
    /\ \E P \in Pubkeys :
          sv_last' = Some([ op |-> "load", tower |-> CHOOSE t \in SvTowers : TRUE, key |-> P,
                            made |-> Err(""), res |-> NullTowerStorage_load(sv_held, P),
                            held_before |-> sv_held, calls_before |-> sv_calls ])
    /\ UNCHANGED <<sv_storage, sv_held, sv_calls>>
    /\ UNCHANGED <<twVars, etVars, fsVars, lvVars, agVars, cvVars, ftVars>>

----------------------------------------------------------------------------
(* SpecVotesConc: update_vote for one pubkey called by several threads at
   once, one step per lock acquisition.  A thread at "found" or "replace"
   holds the map's read lock; the steps under the map's write lock and under
   the entry's locks are atomic. *)

\* self.latest_votes_per_pubkey.read().unwrap().get(&pubkey): with an entry the
\* read guard is kept for the body; without one it is dropped
CvLookup(t) ==
    /\ cv_pc[t] = "start"
    /\ cv_pc' = [cv_pc EXCEPT ![t] = IF IsSome(cv_entry) THEN "found" ELSE "insert"]
    /\ UNCHANGED <<cv_entry, cv_size, cv_slot, cv_latest, cv_ret>>
    /\ UNCHANGED <<twVars, etVars, fsVars, lvVars, agVars, svVars, ftVars>>

\* latest_slot is read under the entry's read lock; a vote that is not newer
\* is returned
CvReadSlot(t) ==
    /\ cv_pc[t] = "found"
    /\ LET latest == Unwrap(cv_entry).slot IN
       /\ cv_latest' = [cv_latest EXCEPT ![t] = latest]
       /\ IF cv_slot[t] > latest
          THEN /\ cv_pc' = [cv_pc EXCEPT ![t] = "replace"]
               /\ UNCHANGED cv_ret
          ELSE /\ cv_pc' = [cv_pc EXCEPT ![t] = "done"]
               /\ cv_ret' = [cv_ret EXCEPT ![t] = Some(Some(t))]
    /\ UNCHANGED <<cv_entry, cv_size, cv_slot>>
    /\ UNCHANGED <<twVars, etVars, fsVars, lvVars, agVars, svVars, ftVars>>

\* under the entry's write lock: the slot is compared again and the tuple
\* replaced
CvReplace(t) ==
    /\ cv_pc[t] = "replace"
    /\ LET latest_vote == Unwrap(cv_entry) IN
       IF cv_slot[t] > latest_vote.slot
       THEN /\ cv_size' = (IF latest_vote.packet = None THEN cv_size + 1 ELSE cv_size)
            /\ cv_entry' = Some([slot |-> cv_slot[t], packet |-> Some(t)])
            /\ cv_ret' = [cv_ret EXCEPT ![t] = Some(latest_vote.packet)]
       ELSE /\ cv_ret' = [cv_ret EXCEPT ![t] = Some(Some(t))]
            /\ UNCHANGED <<cv_entry, cv_size>>
    /\ cv_pc' = [cv_pc EXCEPT ![t] = "done"]
    /\ UNCHANGED <<cv_slot, cv_latest>>
    /\ UNCHANGED <<twVars, etVars, fsVars, lvVars, agVars, svVars, ftVars>>

\* under the map's write lock, which waits for the readers: insert(pubkey,
\* (slot, Some(vote))), size.fetch_add(1), None
CvInsert(t) ==
    /\ cv_pc[t] = "insert"
    /\ \A u \in Threads : cv_pc[u] \notin {"found", "replace"}
    /\ cv_entry' = Some([slot |-> cv_slot[t], packet |-> Some(t)])
    /\ cv_size' = cv_size + 1
    /\ cv_ret' = [cv_ret EXCEPT ![t] = Some(None)]
    /\ cv_pc' = [cv_pc EXCEPT ![t] = "done"]
    /\ UNCHANGED <<cv_slot, cv_latest>>
    /\ UNCHANGED <<twVars, etVars, fsVars, lvVars, agVars, svVars, ftVars>>

CvLookupStep == \E t \in Threads : CvLookup(t)
CvReadSlotStep == \E t \in Threads : CvReadSlot(t)
CvReplaceStep == \E t \in Threads : CvReplace(t)
CvInsertStep == \E t \in Threads : CvInsert(t)

----------------------------------------------------------------------------
(* The specifications *)

InitTower == InitTw /\ InitEt /\ IdleFs /\ InitLv /\ IdleAg /\ IdleSv /\ IdleCv /\ IdleFt
NextTower == TwNew \/ TwSerialize \/ TwTamper \/ TwDeserialize \/ TwTryFresh \/ TwTryLoaded
SpecTower == InitTower /\ [][NextTower]_vars

InitEtcd == IdleTw /\ InitEt /\ IdleFs /\ InitLv /\ IdleAg /\ IdleSv /\ IdleCv /\ IdleFt
NextEtcd == EtLoadBegin \/ EtLoadEnd \/ EtStore \/ EtStoreLoaded
SpecEtcd == InitEtcd /\ [][NextEtcd]_vars

\* The same instances against an etcd store that may hold an undecodable value.
InitEtcdStale ==
    IdleTw /\ InitEtStale /\ IdleFs /\ InitLv /\ IdleAg /\ IdleSv /\ IdleCv /\ IdleFt
SpecEtcdStale == InitEtcdStale /\ [][NextEtcd]_vars

InitFile == IdleTw /\ InitEt /\ InitFs /\ InitLv /\ IdleAg /\ IdleSv /\ IdleCv /\ IdleFt
NextFile == FsCreate \/ FsCreateLoaded \/ FsWrite \/ FsWriteError \/ FsRename \/ FsCrash \/ FsLoad
SpecFile == InitFile /\ [][NextFile]_vars

InitVotes == IdleTw /\ InitEt /\ IdleFs /\ InitLv /\ IdleAg /\ IdleSv /\ IdleCv /\ IdleFt
NextVotes == LvUpdateVote \/ LvDrain
SpecVotes == InitVotes /\ [][NextVotes]_vars

InitAggr == IdleTw /\ InitEt /\ IdleFs /\ InitLv /\ InitAg /\ IdleSv /\ IdleCv /\ IdleFt
NextAggr ==
    AgGossip \/ AgSetExit \/ AgListenEnter \/ AgListen \/ AgListenExit \/ AgHead \/ AgRecv \/ AgRecvError
    \/ AgProcess
SpecAggr == InitAggr /\ [][NextAggr]_vars

\* The same two threads where their progress is checked; the gossip layer
\* receives the chunks of one slot.
NextAggrLive ==
    AgGossipLive \/ AgSetExit \/ AgListenEnter \/ AgListen \/ AgListenExit \/ AgHead \/ AgRecv
    \/ AgRecvError \/ AgProcess

\* Both threads keep running: the listener takes the next step of its loop,
\* the aggregator takes its next step whenever it can (a recv() on an empty
\* channel whose sender lives stays blocked).
SpecAggrLive ==
    /\ InitAggr /\ [][NextAggrLive]_vars
    /\ WF_vars(AgListenEnter \/ AgListen \/ AgListenExit)
    /\ WF_vars(AgHead \/ AgRecv \/ AgRecvError \/ AgProcess)

\* The validator is configured with one backend, the file one or the etcd one.
InitStorage ==
    /\ IdleTw /\ InitLv /\ IdleAg /\ IdleSv /\ IdleCv /\ IdleFt
    /\ \/ InitFs /\ IdleEt
       \/ IdleFs /\ InitEt
NextStorage ==
    FsCreate \/ FsCreateLoaded \/ FsWrite \/ FsWriteError \/ FsRename \/ FsCrash \/ FsLoad
    \/ EtLoadBegin \/ EtLoadEnd \/ EtStore \/ EtStoreLoaded
InitStoreTarget ==
    /\ IdleTw /\ InitLv /\ IdleAg /\ IdleSv /\ IdleCv /\ IdleFt
    /\ \/ InitFs /\ IdleEt
       \/ IdleFs /\ InitEtHeld
SpecStoreTarget == InitStoreTarget /\ [][NextStorage]_vars

SpecStorage == InitStorage /\ [][NextStorage]_vars

InitSave == IdleTw /\ InitEt /\ IdleFs /\ InitLv /\ IdleAg /\ InitSv /\ IdleCv /\ IdleFt
NextSave == SvSave \/ SvNullStore \/ SvNullLoad
SpecSave == InitSave /\ [][NextSave]_vars

InitVotesConc == IdleTw /\ InitEt /\ IdleFs /\ InitLv /\ IdleAg /\ IdleSv /\ InitCv /\ IdleFt
NextVotesConc == CvLookupStep \/ CvReadSlotStep \/ CvReplaceStep \/ CvInsertStep
SpecVotesConc == InitVotesConc /\ [][NextVotesConc]_vars

InitFeature == IdleTw /\ InitEt /\ IdleFs /\ InitLv /\ IdleAg /\ IdleSv /\ IdleCv /\ InitFt
NextFeature == FtActivate \/ FtDeactivate
SpecFeature == InitFeature /\ [][NextFeature]_vars

----------------------------------------------------------------------------
(* The claims *)

C3_RoundTripDirect ==
    /\ (IsSome(tw_new) /\ tw_tower.node_pubkey = tw_key) => Unwrap(tw_new).ok
    /\ (IsSome(tw_call) /\ Unwrap(tw_call).on = "fresh" /\ Unwrap(tw_call).arg = tw_key) =>
           Unwrap(tw_call).res = Ok(tw_tower)

\* C3 amended: for every tower T and signer K with T.node_pubkey = K.pubkey,
\* SavedTower::new(T, K) succeeds, and try_into_tower(K.pubkey) called on that
\* envelope after it was written and read back unaltered (node_pubkey zeroed)
\* yields T with its three #[serde(skip)] fields at their Default values.
C3_RoundTripLoaded ==
    /\ (IsSome(tw_new) /\ tw_tower.node_pubkey = tw_key) => Unwrap(tw_new).ok
    /\ (IsSome(tw_call) /\ Unwrap(tw_call).on = "loaded" /\ ~tw_tampered
          /\ Unwrap(tw_call).arg = tw_key) =>
           Unwrap(tw_call).res = Ok(WithSkippedDefault(tw_tower))

\* C3 witness: a tower with a non-default skipped field went through new, the
\* encoded form and try_into_tower with the signer's pubkey, and came back.
C3_Witness ==
    /\ IsSome(tw_call)
    /\ Unwrap(tw_call).on = "loaded" /\ ~tw_tampered /\ Unwrap(tw_call).arg = tw_key
    /\ Unwrap(tw_call).res.ok
    /\ tw_tower.last_vote_tx_blockhash # 0

\* C4: at-most-once notification.  Over the aggregator's whole run, each slot
\* is sent on the duplicate-slot channel at most once.
C4_AtMostOnce ==
    \A s \in AgSlots : Cardinality({i \in DOMAIN ag_sent : ag_sent[i] = s}) <= 1

\* C5: already-known filter.  A slot that is in the blockstore's duplicate
\* index when a batch begins is, during that batch, neither sent on the
\* duplicate-slot channel nor passed to store_duplicate_slot.
C5_KnownFilter ==
    ag_known \cap (ag_passSent \cup ag_passStored) = {}

\* C5 witness: a pubkey processed in the running batch held a complete,
\* decodable proof for a slot the blockstore already knew when the batch began.
C5_Witness ==
    /\ ag_known \cap ag_passOffered # {}
    /\ ag_pc = "head"

\* C6: size-counter invariant.  After every completed update_vote or drain,
\* len() equals the number of entries whose packet is present.
C6_SizeInvariant ==
    len = PresentPackets(latest_votes_per_pubkey)

\* C7: stale vote rejection.  update_vote(P, s, v) on an entry (s', v') with
\* s' >= s leaves the entry and the size counter as they were and returns
\* Some(v).
C7_StaleVoteRejected ==
    (IsSome(lv_last) /\ Unwrap(lv_last).op = "update_vote") =>
        LET c == Unwrap(lv_last) IN
        (IsSome(c.before[c.pubkey]) /\ Unwrap(c.before[c.pubkey]).slot >= c.slot) =>
            /\ latest_votes_per_pubkey[c.pubkey] = c.before[c.pubkey]
            /\ size = c.size_before
            /\ c.ret = Some(c.vote)

\* C7 witness: a vote for the very slot the entry holds was handed back.
C7_Witness ==
    /\ IsSome(lv_last)
    /\ LET c == Unwrap(lv_last) IN
       /\ c.op = "update_vote"
       /\ IsSome(c.before[c.pubkey])
       /\ Unwrap(c.before[c.pubkey]).slot = c.slot
       /\ IsSome(Unwrap(c.before[c.pubkey]).packet)
       /\ c.ret = Some(c.vote)

\* C8: file atomic publish.  tower-P.bin is at every moment absent or the
\* complete envelope of the last store that returned; while a store is between
\* create and rename it is what it was when the store began; and a load, also
\* after a crash in the middle of a store, returns that envelope's bytes.
C8_AtomicPublish ==
    /\ \A k \in FsKeys : fs_files[filename(k)] = fs_done[k]
    /\ fs_pc = "writing" => fs_files[filename(pubkey(Unwrap(fs_saved)))] = fs_prior
    /\ (IsSome(fs_load) /\ IsSome(Unwrap(fs_load).done)) =>
           /\ Unwrap(fs_load).res.ok
           /\ SavedTower_serialize(Unwrap(Unwrap(fs_load).res.val)) = Unwrap(Unwrap(fs_load).done)

\* C8 witness: after a crash that left a partly written tower-P.bin.new of
\* another envelope behind, load(P) returned the envelope stored before.
C8_Witness ==
    /\ IsSome(fs_load)
    /\ LET l == Unwrap(fs_load)
           n == fs_files[new_filename(l.key)]
       IN /\ l.crashes >= 1 /\ l.res.ok /\ IsSome(l.done)
          /\ IsSome(n)
          /\ Len(Unwrap(n)) \in 3..(Len(Unwrap(l.done)) - 1)
          /\ Unwrap(n) # SubSeq(Unwrap(l.done), 1, Len(Unwrap(n)))

\* C9 as stated: for every envelope S and every pubkey P' other than the key
\* that signed S, S.try_into_tower(P') returns the error WrongTower or
\* InvalidSignature.
C9_WrongIdentityError ==
    (IsSome(tw_call) /\ Unwrap(tw_call).arg # Unwrap(tw_call).env.signature.signer) =>
        /\ ~Unwrap(tw_call).res.ok
        /\ Unwrap(tw_call).res.err \in {"WrongTower", "InvalidSignature"}

\* C9 amended: for every envelope S as a load returns it (node_pubkey zeroed,
\* its stored bytes altered or not) and every pubkey P' other than the key that
\* signed S, S.try_into_tower(P') returns the error WrongTower or
\* InvalidSignature; called on any envelope with such a P', it returns no tower.
C9_WrongIdentityRejected ==
    (IsSome(tw_call) /\ Unwrap(tw_call).arg # Unwrap(tw_call).env.signature.signer) =>
        /\ ~Unwrap(tw_call).res.ok
        /\ Unwrap(tw_call).env.node_pubkey = DefaultPubkey =>
               Unwrap(tw_call).res.err \in {"WrongTower", "InvalidSignature"}

\* C9 witness: a loaded envelope was asked for with a pubkey that did not
\* sign it, and the call failed with InvalidSignature.
C9_Witness ==
    /\ IsSome(tw_call)
    /\ Unwrap(tw_call).on = "loaded"
    /\ Unwrap(tw_call).arg # Unwrap(tw_call).env.signature.signer
    /\ Unwrap(tw_call).arg # DefaultPubkey
    /\ Unwrap(tw_call).res = Err("InvalidSignature")

\* C10: tamper detection.  After any single byte of a validly signed
\* envelope's encoded data was changed, try_into_tower fails with
\* InvalidSignature, whatever pubkey is expected: not with a codec error and
\* not with WrongTower.
C10_TamperDetected ==
    (IsSome(tw_call) /\ Unwrap(tw_call).on = "loaded" /\ tw_tampered) =>
        Unwrap(tw_call).res = Err("InvalidSignature")

\* C10 witness: the changed byte made the payload undecodable, the signer's
\* own pubkey was expected, and the call failed with InvalidSignature.
C10_Witness ==
    /\ IsSome(tw_call)
    /\ Unwrap(tw_call).on = "loaded" /\ tw_tampered
    /\ Unwrap(tw_call).arg = tw_key
    /\ ~TowerDeserialize(Unwrap(tw_call).env.data).ok
    /\ Unwrap(tw_call).res = Err("InvalidSignature")

\* C11: save-side identity check.  When tower.node_pubkey differs from the
\* signer's pubkey, SavedTower1_7_14::new returns WrongTower and no envelope,
\* Tower1_7_14::save returns that error without calling the storage's store,
\* and what the storage keeps is unchanged.
C11_SaveIdentityCheck ==
    (IsSome(sv_last) /\ Unwrap(sv_last).op = "save"
       /\ Unwrap(sv_last).tower.node_pubkey # Unwrap(sv_last).key) =>
        /\ \A v \in Versions :
              SavedTower_new(Unwrap(sv_last).tower, Unwrap(sv_last).key, v) = Err("WrongTower")
        /\ Unwrap(sv_last).made = Err("WrongTower")
        /\ Unwrap(sv_last).made.val = None
        /\ Unwrap(sv_last).res = Err("WrongTower")
        /\ sv_calls = Unwrap(sv_last).calls_before
        /\ sv_held = Unwrap(sv_last).held_before

\* C11 witness: a file storage that already keeps an envelope was handed, by
\* save, a tower of another node than the signer, and the save was rejected.
C11_Witness ==
    /\ IsSome(sv_last)
    /\ sv_storage = "File"
    /\ Unwrap(sv_last).op = "save"
    /\ Unwrap(sv_last).tower.node_pubkey \in Keys \ {Unwrap(sv_last).key}
    /\ ~Unwrap(sv_last).res.ok
    /\ \E k \in Keys : IsSome(sv_held[k])

\* C20: null backend.  NullTowerStorage::load returns an IoError for every
\* pubkey after any history of calls, NullTowerStorage::store returns Ok for
\* every envelope, and the storage never keeps anything.
C20_NullBackend ==
    sv_storage = "Null" =>
        /\ \A k \in Pubkeys : sv_held[k] = None
        /\ IsSome(sv_last) =>
              /\ Unwrap(sv_last).op = "load" => Unwrap(sv_last).res = Err("IoError")
              /\ Unwrap(sv_last).op = "store" => Unwrap(sv_last).res = Ok("unit")
              /\ sv_held = Unwrap(sv_last).held_before

\* C20 witness: a load for the pubkey of an envelope that was stored before
\* failed.
C20_Witness ==
    /\ sv_storage = "Null"
    /\ IsSome(sv_last)
    /\ Unwrap(sv_last).op = "load"
    /\ Unwrap(sv_last).calls_before >= 2
    /\ Unwrap(sv_last).key \in Keys
    /\ ~Unwrap(sv_last).res.ok

\* C12: notify only after persist.  A call of ingest_duplicate_proof_chunk
\* sends the slot on the duplicate-slot channel only if its
\* store_duplicate_slot succeeded.
C12_NotifyAfterPersist ==
    \A i \in DOMAIN ag_calls :
        ag_calls[i].call.did.send => ag_calls[i].call.did.stored

\* C13: chunk overflow is discarded.  A call given more chunks than num_chunks
\* attempts no decode, calls no store_duplicate_slot and sends nothing: the
\* slot is not in the blockstore index afterwards and the channel has received
\* it as often as before.
C13_OverflowDiscarded ==
    \A i \in DOMAIN ag_calls :
        LET c == ag_calls[i] IN
        c.call.chunks > c.call.num_chunks =>
            /\ ~c.call.did.decode /\ ~c.call.did.store /\ ~c.call.did.send
            /\ c.call.slot \notin ag_dups
            /\ Count(ag_sent, c.call.slot) = c.sent_before

\* C13 witness: a peer's chunks for a slot outnumbered num_chunks.
C13_Witness ==
    \E i \in DOMAIN ag_calls :
        /\ ag_calls[i].call.chunks > ag_calls[i].call.num_chunks
        /\ ag_calls[i].call.slot \notin ag_dups

\* C14: partial proof across two signals.  A call given fewer chunks than
\* num_chunks writes nothing to the blockstore and sends nothing; a later call
\* for the same peer and slot (the slot still unknown to the blockstore) that
\* finds the chunk set complete and decodable sends the slot exactly once.
C14_PartialThenComplete ==
    \A i \in DOMAIN ag_calls :
        LET c == ag_calls[i] IN
        /\ c.call.chunks < c.call.num_chunks =>
               /\ ~c.call.did.store /\ ~c.call.did.send
               /\ c.call.slot \notin ag_dups
               /\ Count(ag_sent, c.call.slot) = c.sent_before
        /\ (c.was_partial /\ c.call.chunks = c.call.num_chunks /\ c.call.decodes) =>
               /\ c.call.did.send
               /\ Count(ag_sent, c.call.slot) = c.sent_before + 1

\* C14 witness: the peer's proof was incomplete at an earlier signal, was
\* complete at this one, and the slot went out for the first time.
C14_Witness ==
    \E i \in DOMAIN ag_calls :
        LET c == ag_calls[i] IN
        /\ c.was_partial /\ c.call.chunks = c.call.num_chunks /\ c.call.decodes
        /\ c.call.num_chunks = 2
        /\ c.sent_before = 0
        /\ Count(ag_sent, c.call.slot) = 1

C16_GracefulShutdown ==
    /\ [](ag_afterExit <= 1)
    /\ (ag_exit ~> (ag_lpc = "exit" /\ ag_pc = "exit"))

\* C16 witness: both loops have returned, and the aggregator, which was past
\* its loop head when the flag was set, took one more batch.
C16_Witness ==
    /\ ag_exit /\ ag_lpc = "exit" /\ ag_pc = "exit"
    /\ ag_afterExit = 1

\* C17: latest-wins under concurrency.  Once all concurrent update_vote calls
\* for a pubkey have returned, the pubkey's entry holds the highest slot among
\* the submitted votes (and the vote it held before), with a packet that was
\* submitted for that slot.
C17_LatestWins ==
    (\A t \in Threads : cv_pc[t] = "done") =>
        /\ IsSome(cv_entry)
        /\ \A t \in Threads : Unwrap(cv_entry).slot >= cv_slot[t]
        /\ \E p \in Threads \cup {0} :
              /\ Unwrap(cv_entry).packet = Some(p)
              /\ p \in Threads => cv_slot[p] = Unwrap(cv_entry).slot

C19_DecoderByConfiguration ==
    /\ (IsSome(fs_load) /\ Unwrap(fs_load).res.ok) =>
           ((Unwrap(Unwrap(fs_load).res.val).version = "V1_7_14") <=> fs_migration)
    /\ (IsSome(et_last) /\ Unwrap(et_last).op = "load" /\ Unwrap(et_last).res.ok) =>
           ((Unwrap(Unwrap(et_last).res.val).version = "V1_7_14")
               <=> migration(Unwrap(et_last).inst))

\* C19 witness: a file backend with the migration flag set loaded, as a
\* SavedTower1_7_14, a file that a store had completed.
C19_Witness ==
    /\ fs_migration
    /\ IsSome(fs_load)
    /\ Unwrap(fs_load).res.ok
    /\ IsSome(Unwrap(fs_load).done)
    /\ Unwrap(Unwrap(fs_load).res.val).version = "V1_7_14"

\* C21: FeatureSet partition: starting from FeatureSet::default() or
\* FeatureSet::all_enabled(), after any sequence of activate and deactivate
\* calls no id is both active and inactive, every id of FEATURE_NAMES and every
\* id a call was made for is in exactly one of the two, an id whose most recent
\* call is activate(id, slot) is active with activated_slot(id) = Some(slot),
\* and an id whose most recent call is deactivate(id) is inactive with
\* activated_slot(id) = None.
C21_FeatureSetPartition ==
    LET self == [active |-> active, inactive |-> inactive] IN
    \A id \in FtIds :
        /\ ~(is_active(self, id) /\ id \in inactive)
        /\ (id \in FEATURE_NAMES \/ IsSome(ft_recent[id])) =>
              (is_active(self, id) \/ id \in inactive)
        /\ (IsSome(ft_recent[id]) /\ Unwrap(ft_recent[id]).op = "activate") =>
              /\ is_active(self, id) /\ id \notin inactive
              /\ activated_slot(self, id) = Some(Unwrap(ft_recent[id]).slot)
        /\ (IsSome(ft_recent[id]) /\ Unwrap(ft_recent[id]).op = "deactivate") =>
              /\ id \in inactive /\ ~is_active(self, id)
              /\ activated_slot(self, id) = None

\* An id of no list has been activated, a listed id activated at a later slot
\* than its first activation's, and another listed id deactivated.
C21_Witness ==
    /\ ft_recent[NumFeatures + 1] = Some([op |-> "activate", slot |-> MaxFeatureSlot])
    /\ ft_recent[1] = Some([op |-> "activate", slot |-> MaxFeatureSlot])
    /\ ft_recent[NumFeatures] = Some([op |-> "deactivate", slot |-> 0])
    /\ active[1] = Some(MaxFeatureSlot) /\ NumFeatures \in inactive

\* C22: Zeroed-pubkey load contract: every envelope a backend's load decodes
\* from stored bytes, changed or not, has node_pubkey equal to the default
\* (zero) pubkey; and try_into_tower called on an envelope whose node_pubkey is
\* not the default one fails its assertion: it returns neither a tower nor a
\* signature, codec or wrong-tower error, the outcomes of the steps after it.
C22_ZeroedPubkeyOnLoad ==
    /\ (IsSome(tw_loaded) /\ Unwrap(tw_loaded).ok) =>
          pubkey(Unwrap(Unwrap(tw_loaded).val)) = DefaultPubkey
    /\ (IsSome(tw_call) /\ pubkey(Unwrap(tw_call).env) # DefaultPubkey) =>
          Unwrap(tw_call).res = Err("panic")

\* Bytes that were changed after the store have been decoded, and
\* try_into_tower has been called on the envelope SavedTower::new returned,
\* with the key that signed it.
C22_Witness ==
    /\ tw_tampered /\ IsSome(tw_loaded) /\ Unwrap(tw_loaded).ok
    /\ IsSome(tw_call) /\ Unwrap(tw_call).on = "fresh"
    /\ Unwrap(tw_call).arg = tw_key
    /\ pubkey(Unwrap(tw_call).env) = tw_key

\* C23: Listener forwarding: the sends recv_loop has executed are, in order,
\* one per duplicate-shred entry among the entries its cursor has passed, each
\* carrying that entry's originating pubkey, and none for an entry of another
\* kind; the cursor never moves back, so no entry is signalled in a later poll
\* again; a send that fails changes none of this (the remaining entries of the
\* batch are still sent and the loop goes on), and recv_loop returns only when
\* the exit flag is set.
C23_ListenerForwarding ==
    /\ [](LET seen == SelectSeq(SubSeq(ag_gossip, 1, ag_cursor), LAMBDA e : e.dup) IN
          /\ Len(ag_signalled) = Len(seen)
          /\ \A i \in DOMAIN seen :
                /\ ag_signalled[i].pubkey = seen[i].from
                /\ ag_signalled[i].at < ag_cursor
          /\ \A i, j \in DOMAIN ag_signalled :
                i < j => ag_signalled[i].at <= ag_signalled[j].at
          /\ (ag_lpc = "exit" => ag_exit))
    /\ [][ag_cursor' >= ag_cursor]_vars

\* Both sends of one poll have failed, the second after the first, and the loop
\* is back at its while condition.
C23_Witness ==
    /\ Len(ag_signalled) = 2
    /\ ~ag_signalled[1].ok /\ ~ag_signalled[2].ok
    /\ ag_signalled[1].at = ag_signalled[2].at
    /\ ag_cursor = 2 /\ ag_lpc = "run"

\* C24: Fault isolation in a pass: whatever the calls of a pubkey's processing
\* did (a decode failure, more chunks than num_chunks, a store error, a send
\* whose error is only logged), ingest_duplicate_proof_chunk was called once
\* for every slot of that peer that was not in the duplicate index, each call
\* did what its own chunk set calls for, the batch goes on with its next pubkey
\* until it is empty, and the aggregator loop returns only on the exit flag.
C24_FaultIsolation ==
    /\ [](IsSome(ag_run) =>
            LET run == Unwrap(ag_run)
                mine == SelectSeq(SubSeq(ag_gossip, 1, run.gossip),
                                  LAMBDA e : e.dup /\ e.from = run.pubkey
                                             /\ e.chunk.slot \notin run.dups)
                slots == {mine[i].chunk.slot : i \in DOMAIN mine}
            IN /\ {ag_calls[i].call.slot : i \in DOMAIN ag_calls} = slots
               /\ Len(ag_calls) = Cardinality(slots)
               /\ \A i \in DOMAIN ag_calls :
                     LET c == ag_calls[i].call IN
                     /\ ag_calls[i].peer = run.pubkey
                     /\ c.did.decode <=> (c.chunks = c.num_chunks)
                     /\ c.did.store <=> (c.chunks = c.num_chunks /\ c.decodes)
                     /\ c.did.send <=> (c.chunks = c.num_chunks /\ c.decodes))
    /\ [](ag_pc # "batch" => ag_batch = <<>>)
    /\ [](ag_pc = "exit" => ag_exit)
    /\ [][(ag_pc = "batch" /\ ag_batch' # ag_batch) =>
             /\ ag_batch' = Tail(ag_batch)
             /\ IsSome(ag_run') /\ Unwrap(ag_run').pubkey = Head(ag_batch)
             /\ ag_pc' = (IF ag_batch' = <<>> THEN "head" ELSE "batch")]_vars

\* The first call of a pubkey's processing got an error from the blockstore,
\* the second one, for the peer's other slot, stored and sent its slot, and
\* the batch has another pubkey to go on with.
C24_Witness ==
    /\ Len(ag_calls) = 2
    /\ ag_calls[1].call.did.store /\ ~ag_calls[1].call.did.stored
    /\ ag_calls[2].call.did.stored /\ ag_calls[2].call.did.send
    /\ ag_calls[2].call.slot \in ag_dups
    /\ ag_pc = "batch" /\ ag_batch # <<>>

\* C25: Eventual notification: with both threads scheduled fairly, whenever the
\* gossip layer holds a complete, decodable chunk set from a peer for a slot
\* that is not in the duplicate index and has not been sent yet, the slot is
\* eventually sent on the duplicate-slot channel, unless the exit flag is set
\* or the peer's set stops being complete (a further chunk for the slot) before
\* the peer's signal is processed; passes that saw the set incomplete are
\* among the behaviours checked.
C25_EventualNotification ==
    \A X \in AgPeers : \A s \in AgSlots :
        (s \in Offered(ag_gossip, X) /\ s \notin ag_dups /\ s \notin Range(ag_sent))
        ~> (s \in Range(ag_sent) \/ ag_exit \/ s \notin Offered(ag_gossip, X))

\* A slot has been sent for a peer whose earlier pass had seen fewer chunks
\* than num_chunks; the exit flag is unset and the peer's set is complete.
C25_Witness ==
    \E X \in AgPeers : \E s \in AgSlots :
        /\ <<X, s>> \in ag_partial
        /\ s \in Offered(ag_gossip, X)
        /\ Count(ag_sent, s) = 1 /\ s \in ag_dups
        /\ ~ag_exit /\ ag_pc = "recv" /\ ag_chan = <<>>

\* C26: Accepting a newer vote: update_vote(P, s, v) on an entry (s', p') with
\* s > s' sets the entry to (s, Some(v)) and returns p': Some(old) with the
\* size counter unchanged, or None when the packet had been drained, the
\* counter then being one more; for a pubkey with no entry it inserts
\* (s, Some(v)), adds one to the counter and returns None.  Other pubkeys'
\* entries stay as they were.
C26_NewerVoteAccepted ==
    (IsSome(lv_last) /\ Unwrap(lv_last).op = "update_vote") =>
        LET c == Unwrap(lv_last)
            old == c.before[c.pubkey]
        IN /\ (IsSome(old) /\ c.slot > Unwrap(old).slot) =>
                 /\ latest_votes_per_pubkey[c.pubkey] =
                        Some([slot |-> c.slot, packet |-> Some(c.vote)])
                 /\ c.ret = Unwrap(old).packet
                 /\ IsSome(Unwrap(old).packet) => size = c.size_before
                 /\ ~IsSome(Unwrap(old).packet) => size = c.size_before + 1
           /\ ~IsSome(old) =>
                 /\ latest_votes_per_pubkey[c.pubkey] =
                        Some([slot |-> c.slot, packet |-> Some(c.vote)])
                 /\ c.ret = None
                 /\ size = c.size_before + 1
           /\ \A pk \in LvPubkeys \ {c.pubkey} :
                 latest_votes_per_pubkey[pk] = c.before[pk]

\* A newer vote has replaced an entry whose packet had been drained: nothing
\* was returned and the counter went up by one.
C26_Witness ==
    /\ IsSome(lv_last)
    /\ LET c == Unwrap(lv_last) IN
       /\ c.op = "update_vote"
       /\ IsSome(c.before[c.pubkey])
       /\ Unwrap(c.before[c.pubkey]).packet = None
       /\ c.slot > Unwrap(c.before[c.pubkey]).slot
       /\ c.ret = None
       /\ size = c.size_before + 1

\* C27: Drain effect: a fully consumed drain_unprocessed_votes_by_stake yields
\* each stored packet of a staked pubkey exactly once and leaves that entry's
\* packet None with its slot unchanged; it yields nothing for a staked pubkey
\* whose packet is already None; entries of pubkeys that are not staked are
\* left untouched; and the size counter decreases by exactly the number of
\* packets yielded.
C27_DrainEffect ==
    (IsSome(lv_last) /\ Unwrap(lv_last).op = "drain") =>
        LET c == Unwrap(lv_last)
            staked == Range(c.order)
            stored == { pk \in staked : IsSome(c.before[pk])
                                        /\ IsSome(Unwrap(c.before[pk]).packet) }
        IN /\ Len(c.yielded) = Cardinality(stored)
           /\ \A pk \in stored : Count(c.yielded, Unwrap(Unwrap(c.before[pk]).packet)) = 1
           /\ \A pk \in staked :
                 IsSome(c.before[pk]) =>
                     latest_votes_per_pubkey[pk] =
                         Some([slot |-> Unwrap(c.before[pk]).slot, packet |-> None])
           /\ \A pk \in LvPubkeys \ staked : latest_votes_per_pubkey[pk] = c.before[pk]
           /\ \A pk \in staked : ~IsSome(c.before[pk]) => latest_votes_per_pubkey[pk] = None
           /\ size = c.size_before - Len(c.yielded)

\* C28: Expected chunk count: in the processing of one pubkey, the chunks
\* given to a slot's call are all of the peer's chunks for the slot, in the
\* order the gossip layer returned them, and the num_chunks the slot's
\* completeness is judged by is the num_chunks field of the first of them,
\* also when a later chunk of the slot carries a different num_chunks.
C28_ExpectedChunkCount ==
    IsSome(ag_run) =>
        LET run == Unwrap(ag_run)
            mine == SelectSeq(SubSeq(ag_gossip, 1, run.gossip),
                              LAMBDA e : e.dup /\ e.from = run.pubkey)
        IN \A i \in DOMAIN ag_calls :
              LET c == ag_calls[i].call
                  ofSlot == SelectSeq(mine, LAMBDA e : e.chunk.slot = c.slot)
              IN /\ Len(c.given) = Len(ofSlot)
                 /\ \A k \in DOMAIN ofSlot : c.given[k] = ofSlot[k].chunk
                 /\ c.num_chunks = ofSlot[1].chunk.num_chunks
                 /\ c.did.decode <=> (Len(ofSlot) = ofSlot[1].chunk.num_chunks)

\* A slot's first chunk says two chunks and its second says one: the call was
\* judged by the first, found the count reached and went on to decode.
C28_Witness ==
    \E i \in DOMAIN ag_calls :
        LET c == ag_calls[i].call IN
        /\ Len(c.given) = 2
        /\ c.given[1].num_chunks = 2 /\ c.given[2].num_chunks = 1
        /\ c.num_chunks = 2
        /\ c.did.decode /\ ~c.did.send

\* C29: No cross-pass reassembly state: the chunks the calls of a pubkey's
\* processing were given are, chunk for chunk, that peer's chunks in the
\* gossip layer at that moment for the slots outside the duplicate index at
\* that moment, with nothing left from an earlier pass or from another peer;
\* and the slots stored and sent are those for which these chunks are a
\* complete decodable proof.
C29_NoCrossPassState ==
    IsSome(ag_run) =>
        LET run == Unwrap(ag_run)
            then == SubSeq(ag_gossip, 1, run.gossip)
            mine == SelectSeq(then, LAMBDA e : e.dup /\ e.from = run.pubkey
                                               /\ e.chunk.slot \notin run.dups)
            done(what) == { ag_calls[i].call.slot :
                              i \in { j \in DOMAIN ag_calls : ag_calls[j].call.did[what] } }
        IN /\ \A ch \in AgChunks :
                 Cardinality({ ik \in (DOMAIN ag_calls) \X (1..MaxGossip) :
                                  /\ ik[2] \in DOMAIN ag_calls[ik[1]].call.given
                                  /\ ag_calls[ik[1]].call.given[ik[2]] = ch })
                 = Cardinality({ k \in DOMAIN mine : mine[k].chunk = ch })
           /\ done("send") = Offered(then, run.pubkey) \ run.dups
           /\ done("store") = Offered(then, run.pubkey) \ run.dups
           /\ run.dups \subseteq ag_dups
           /\ ag_dups \ run.dups \subseteq done("store")

\* A pubkey was processed once with the first chunk of a proof in gossip and
\* again with both: the second processing gave its one call the two chunks,
\* each once, and the slot was stored.
C29_Witness ==
    /\ IsSome(ag_run) /\ Len(ag_calls) = 1
    /\ <<Unwrap(ag_run).pubkey, ag_calls[1].call.slot>> \in ag_partial
    /\ Len(ag_calls[1].call.given) = 2
    /\ ag_calls[1].call.given[1] # ag_calls[1].call.given[2]
    /\ ag_calls[1].call.did.stored
    /\ Unwrap(ag_run).rest = 0

\* C30: Etcd load with no stored tower: a load whose instance still holds
\* <P>/instance at its second transaction (the lease compare succeeds) while
\* <P>/tower has no value returns the IoError "Saved tower response missing"
\* and no envelope.
C30_LoadNoStoredTower ==
    (IsSome(et_last) /\ Unwrap(et_last).op = "load"
       /\ Unwrap(et_last).acquirer = Some(Unwrap(et_last).inst)
       /\ Unwrap(et_last).before = None) =>
        /\ Unwrap(et_last).res = Err(ResponseMissing)
        /\ ~Unwrap(et_last).res.ok
        /\ Unwrap(et_last).res.val = None

\* An instance's load kept the lock through both transactions, found nothing
\* under <P>/tower and failed; the store still has no tower for P.
C30_Witness ==
    /\ IsSome(et_last)
    /\ Unwrap(et_last).op = "load"
    /\ Unwrap(et_last).acquirer = Some(Unwrap(et_last).inst)
    /\ Unwrap(et_last).before = None
    /\ Unwrap(et_last).res.err = ResponseMissing
    /\ etcd_tower[Unwrap(et_last).key] = None

C32_NoCrossPeerCombination ==
    /\ IsSome(ag_run) =>
          LET run == Unwrap(ag_run)
              own(s) == SelectSeq(SubSeq(ag_gossip, 1, run.gossip),
                                  LAMBDA e : e.dup /\ e.from = run.pubkey /\ e.chunk.slot = s)
          IN \A i \in DOMAIN ag_calls :
                LET c == ag_calls[i].call IN
                /\ Len(c.given) <= Len(own(c.slot))
                /\ \A k \in DOMAIN c.given : c.given[k] = own(c.slot)[k].chunk
                /\ c.did.decode => Len(own(c.slot)) = c.num_chunks
    /\ \A s \in Range(ag_sent) \cup Range(ag_stores) :
          \E X \in AgPeers : \E n \in 0..Len(ag_gossip) :
              s \in Offered(SubSeq(ag_gossip, 1, n), X)

\* The two halves of a proof came from two peers; both peers were processed,
\* each call had one chunk of two, and the slot was neither stored nor sent.
C32_Witness ==
    \E s \in AgSlots :
        /\ Len(ag_gossip) = 2
        /\ ag_gossip[1].dup /\ ag_gossip[2].dup
        /\ ag_gossip[1].from # ag_gossip[2].from
        /\ ag_gossip[1].chunk = [slot |-> s, num_chunks |-> 2, chunk_index |-> 0]
        /\ ag_gossip[2].chunk = [slot |-> s, num_chunks |-> 2, chunk_index |-> 1]
        /\ <<ag_gossip[1].from, s>> \in ag_partial
        /\ <<ag_gossip[2].from, s>> \in ag_partial
        /\ ag_cursor = 2 /\ ag_chan = <<>> /\ ag_batch = <<>>
        /\ s \notin ag_dups /\ s \notin Range(ag_sent) /\ s \notin Range(ag_stores)

\* C33: Packet conservation: once all concurrent update_vote calls for a
\* pubkey have returned, every packet passed to update_vote (and the one the
\* entry held before) is in exactly one place: stored in the entry, or handed
\* back as the return value of exactly one of the calls; none is dropped and
\* none is returned twice.
C33_PacketConservation ==
    (\A t \in Threads : cv_pc[t] = "done") =>
        LET places(p) ==
                Cardinality({t \in Threads : cv_ret[t] = Some(Some(p))})
                + (IF IsSome(cv_entry) /\ Unwrap(cv_entry).packet = Some(p) THEN 1 ELSE 0)
        IN /\ \A p \in Threads : places(p) = 1
           /\ places(0) <= 1

\* C34: Monotonic latest slot: over every sequence of update_vote and drain
\* calls, get_latest_vote_slot(P) is None until the first update_vote for P and
\* from then on the highest slot ever passed to update_vote for P; it never
\* decreases, a drain leaves it as it is, and an update_vote for a drained
\* entry with a slot not above the entry's is rejected: the packet is returned
\* and the map and the counter stay as they were.
C34_MonotonicLatestSlot ==
    /\ [](\A pk \in LvPubkeys : get_latest_vote_slot(latest_votes_per_pubkey, pk) = lv_max[pk])
    /\ [][\A pk \in LvPubkeys :
            LET old == get_latest_vote_slot(latest_votes_per_pubkey, pk)
                new == get_latest_vote_slot(latest_votes_per_pubkey', pk)
            IN /\ IsSome(old) => (IsSome(new) /\ Unwrap(new) >= Unwrap(old))
               /\ (IsSome(lv_last') /\ Unwrap(lv_last').op = "drain"
                     /\ lv_last' # lv_last) => new = old]_vars
    /\ []((IsSome(lv_last) /\ Unwrap(lv_last).op = "update_vote") =>
            LET c == Unwrap(lv_last)
                old == c.before[c.pubkey]
            IN (IsSome(old) /\ Unwrap(old).packet = None /\ c.slot <= Unwrap(old).slot) =>
                  /\ c.ret = Some(c.vote)
                  /\ latest_votes_per_pubkey = c.before
                  /\ size = c.size_before)

\* A vote for the very slot of an entry that had been drained was handed back,
\* and the entry still holds that slot and no packet.
C34_Witness ==
    /\ IsSome(lv_last)
    /\ LET c == Unwrap(lv_last) IN
       /\ c.op = "update_vote"
       /\ IsSome(c.before[c.pubkey])
       /\ Unwrap(c.before[c.pubkey]).packet = None
       /\ c.slot = Unwrap(c.before[c.pubkey]).slot /\ c.slot = MaxVoteSlot
       /\ c.ret = Some(c.vote)
       /\ get_latest_vote_slot(latest_votes_per_pubkey, c.pubkey) = Some(MaxVoteSlot)

----------------------------------------------------------------------------
(* C35: the store target *)

\* C35: a store writes under the names computed from the envelope's own
\* node_pubkey and nowhere else. FileTowerStorage::store touches only
\* tower-<k>.bin and tower-<k>.bin.new for k the envelope's node_pubkey, and
\* when it returns Ok tower-<k>.bin holds the encoded envelope.
\* EtcdTowerStorage::store compares "<k>/instance" and changes at most
\* "<k>/tower", which holds the encoded envelope when it returns Ok and is
\* unchanged when it fails. For an envelope made by new(tower, signer) k is the
\* signer; for an envelope a load(P) returned k is Pubkey::default(), and what
\* is stored for P stays as it was.
C35_StoreTargetFromEnvelope ==
    [][ /\ LET env == IF IsSome(fs_saved) THEN fs_saved ELSE fs_saved' IN
           IsSome(env) =>
              LET saved == Unwrap(env)
                  k == saved.node_pubkey
                  loaded == /\ IsSome(fs_load) /\ Unwrap(fs_load).res.ok
                            /\ saved = Unwrap(Unwrap(fs_load).res.val)
              IN /\ \A n \in FsNames :
                       fs_files'[n] # fs_files[n] => n \in {filename(k), new_filename(k)}
                 /\ (fs_pc = "writing" /\ fs_pc' = "idle" /\ fs_crashes' = fs_crashes
                       /\ fs_written = Len(SavedTower_serialize(saved)))
                    => fs_files'[filename(k)] = Some(SavedTower_serialize(saved))
                 /\ saved \in FsEnvelopes => k = saved.signature.signer
                 /\ loaded => /\ k = DefaultPubkey
                              /\ \A P \in FsKeys \ {DefaultPubkey} :
                                    fs_files'[filename(P)] = fs_files[filename(P)]
        /\ \A j \in EtKeys :
              etcd_tower'[j] # etcd_tower[j]
              => /\ IsSome(et_last') /\ Unwrap(et_last').op = "store"
                 /\ Unwrap(Unwrap(et_last').saved).node_pubkey = j
        /\ (et_last' # et_last /\ IsSome(et_last') /\ Unwrap(et_last').op = "store")
           => LET r == Unwrap(et_last')
                  saved == Unwrap(r.saved)
                  k == saved.node_pubkey
                  loaded == /\ IsSome(et_last) /\ Unwrap(et_last).inst = r.inst
                            /\ Unwrap(et_last).op = "load" /\ Unwrap(et_last).res.ok
                            /\ saved = Unwrap(Unwrap(et_last).res.val)
              IN /\ r.res.ok <=> etcd_instance[k] = Some(instance_id(r.inst))
                 /\ r.res.ok => etcd_tower'[k] = Some(SavedTower_serialize(saved))
                 /\ ~r.res.ok => etcd_tower' = etcd_tower
                 /\ \A j \in EtKeys \ {k} : etcd_tower'[j] = etcd_tower[j]
                 /\ saved \in EtEnvelopes(r.inst) => k = saved.signature.signer
                 /\ loaded => /\ k = DefaultPubkey
                              /\ \A P \in EtLoadKeys : etcd_tower'[P] = etcd_tower[P]
      ]_vars

\* C35 witness: the file store of an envelope that load(1) returned has
\* finished: tower-<default>.bin holds it and tower-1.bin still holds the
\* envelope the validator stored under its own pubkey.
C35_Witness ==
    /\ fs_pc = "idle"
    /\ IsSome(fs_load) /\ Unwrap(fs_load).key = 1 /\ Unwrap(fs_load).res.ok
    /\ fs_files[filename(DefaultPubkey)]
          = Some(SavedTower_serialize(Unwrap(Unwrap(fs_load).res.val)))
    /\ IsSome(fs_files[filename(1)])
    /\ fs_files[filename(1)] = fs_done[1]

====
